---------------------------- MODULE Spec2Model ----------------------------
(***************************************************************************)
(* pyconcrete: the Python binding layer (the .rs files of src/src) over    *)
(* the concrete homomorphic-encryption library.  The binding methods are   *)
(* modelled from their code; the library calls they delegate to (methods   *)
(* of concrete Encoder and concrete LWE) are not part of src/ and are      *)
(* modelled from the contracts the specification and the doc comments      *)
(* give for them; those definitions carry the prefix concrete_.            *)
(*                                                                         *)
(* Real numbers (f64) are modelled by integers; every interval used has a  *)
(* width that is a multiple of 2^precision, so granularity is exact.       *)
(* Torus values are unsigned integers of TorusBits bits.                   *)
(***************************************************************************)
EXTENDS Integers, Sequences, FiniteSets, TLC

VARIABLES enc,    \* the host's current Encoder object
          ct,     \* the host's current LWE object ("self" of the LWE methods)
          res,    \* outcome of the last completed call
          pc,     \* "idle", "aborted", or the name of the binding method being executed
          depth,  \* number of nested activations of the method named by pc
          frame,  \* arguments of the call in progress
          pt,     \* the host's current Plaintext object
          vec,    \* the host's current VectorLWE or VectorRLWE object
          got     \* the Encoder the host last obtained from a getter

vars == <<enc, ct, res, pc, depth, frame, pt, vec, got>>

---------------------------------------------------------------------------
(* Bounds *)

\* width of a Torus value in bits (u64 in the library, reduced here)
TorusBits == 6

\* number of nested activations the call stack can hold
StackLimit == 3

(* Input domains *)
Reals == {-4, 0, 4}
Precisions == {0, 1, 2}
Paddings == {0, 1, 2}
Messages == -5 .. 5
Dimensions == {630, 1024}

---------------------------------------------------------------------------
(* Arithmetic helpers *)

RECURSIVE Pow2(_)
Pow2(n) == IF n <= 0 THEN 1 ELSE 2 * Pow2(n - 1)

TorusModulus == Pow2(TorusBits)
Torus == 0 .. (TorusModulus - 1)

Abs(x) == IF x < 0 THEN -x ELSE x
Min(a, b) == IF a <= b THEN a ELSE b
Max(a, b) == IF a >= b THEN a ELSE b

\* floor of a / b for b > 0
FloorDiv(a, b) == a \div b

\* a / b rounded to the nearest integer, ties to the even neighbour, b > 0
RoundDiv(a, b) ==
  LET q == a \div b
      r == a % b
  IN  IF 2 * r < b THEN q
      ELSE IF 2 * r > b THEN q + 1
      ELSE IF q % 2 = 0 THEN q ELSE q + 1

---------------------------------------------------------------------------
(* Results of fallible calls *)

NoEncoder == [o |-> 0, delta |-> 0, nb_bit_precision |-> 0, nb_bit_padding |-> 0, round |-> FALSE]
NoPlaintext == [encoders |-> << >>, plaintexts |-> << >>, nb_plaintexts |-> 0]

\* Result<T, CryptoAPIError> of the library: Ok(value) or Err(kind)
Ok(v) == [status |-> "Ok", err |-> "none", exc |-> "none", val |-> v]
Err(kind, dflt) == [status |-> "Err", err |-> kind, exc |-> "CryptoAPIError", val |-> dflt]

\* translate_error!: Ok passes through, Err(e) becomes PyValueError(e.to_string())
translate_error(r) ==
  IF r.status = "Ok" THEN r ELSE [r EXCEPT !.exc = "PyValueError"]

---------------------------------------------------------------------------
(* concrete::Encoder, from the specification *)

concrete_get_granularity(e) == e.delta \div Pow2(e.nb_bit_precision)

concrete_is_valid(e) == ~(e.nb_bit_precision = 0 \/ e.delta <= 0)

concrete_Encoder_new(min, max, nb_bit_precision, nb_bit_padding) ==
  IF max <= min THEN Err("InvalidIntervalError", NoEncoder)
  ELSE IF nb_bit_precision = 0 THEN Err("InvalidPrecisionError", NoEncoder)
  ELSE Ok([o |-> min, delta |-> max - min,
           nb_bit_precision |-> nb_bit_precision,
           nb_bit_padding |-> nb_bit_padding, round |-> FALSE])

concrete_Encoder_new_rounding_context(min, max, nb_bit_precision, nb_bit_padding) ==
  LET r == concrete_Encoder_new(min, max, nb_bit_precision, nb_bit_padding)
  IN  IF r.status = "Ok" THEN Ok([r.val EXCEPT !.round = TRUE]) ELSE r

\* number of low-order Torus bits below the grid
Shift(e) == TorusBits - e.nb_bit_precision - e.nb_bit_padding

\* round_or_floor((message - o) / granularity) << shift, in the Torus width
concrete_encode_core(e, m) ==
  LET g == concrete_get_granularity(e)
      idx == IF e.round THEN RoundDiv(m - e.o, g) ELSE FloorDiv(m - e.o, g)
  IN  (idx * Pow2(Shift(e))) % TorusModulus

\* index of the grid point a Torus value is read as, modulo the grid
GridIndex(e, t) ==
  LET full == IF e.round THEN RoundDiv(t, Pow2(Shift(e))) ELSE FloorDiv(t, Pow2(Shift(e)))
  IN  full % Pow2(e.nb_bit_precision)

concrete_decode_core(e, t) == e.o + GridIndex(e, t) * concrete_get_granularity(e)

concrete_encode_single(e, m) ==
  IF m < e.o \/ m >= e.o + e.delta
  THEN Err("MessageOutsideIntervalError", NoPlaintext)
  ELSE Ok([encoders |-> <<e>>, plaintexts |-> <<concrete_encode_core(e, m)>>,
           nb_plaintexts |-> 1])

concrete_decode_single(e, t) ==
  IF ~concrete_is_valid(e) THEN Err("InvalidEncoderError", 0)
  ELSE Ok(concrete_decode_core(e, t))

---------------------------------------------------------------------------
(* Encoder (src/src/encoder.rs) *)

Encoder_new_swapped(min, max, nb_bit_precision, nb_bit_padding) ==
  translate_error(concrete_Encoder_new(max, min, nb_bit_precision, nb_bit_padding))
Encoder_new(min, max, nb_bit_precision, nb_bit_padding) ==
  translate_error(concrete_Encoder_new(min, max, nb_bit_precision, nb_bit_padding))

Encoder_new_rounding_context(min, max, nb_bit_precision, nb_bit_padding) ==
  translate_error(concrete_Encoder_new_rounding_context(min, max, nb_bit_precision, nb_bit_padding))

Encoder_zero ==
  [o |-> 0, delta |-> 0, nb_bit_precision |-> 0, nb_bit_padding |-> 0, round |-> FALSE]

Encoder_encode_single_unwrap(self, message) ==
  LET r == concrete_encode_single(self, message)
  IN  IF r.status = "Ok" THEN r
      ELSE [r EXCEPT !.status = "Panic", !.exc = "PanicException"]
Encoder_encode_single(self, message) ==
  translate_error(concrete_encode_single(self, message))

Encoder_decode_single_nopad(self, ec) ==
  translate_error(concrete_decode_single([self EXCEPT !.nb_bit_padding = 0], ec))
Encoder_decode_single(self, ec) ==
  translate_error(concrete_decode_single(self, ec))

Encoder_get_granularity(self) == self.delta \div Pow2(self.nb_bit_precision)

Encoder_is_valid_precision_only(self) == ~(self.nb_bit_precision = 0)
Encoder_is_valid(self) == ~(self.nb_bit_precision = 0 \/ self.delta <= 0)

---------------------------------------------------------------------------
(* State machine of a host session driving the Encoder API *)

NoArgs == [a |-> 0, b |-> 0, c |-> 0, d |-> 0]

\* placeholder for "no LWE object"
NoLWE == [mask |-> 0, body |-> 0, variance |-> 0, dimension |-> 0, encoder |-> Encoder_zero]

\* placeholders for "no vector ciphertext" and "no Encoder obtained yet"
NoVector == [kind |-> "none"]
NoHandle == [kind |-> "none", data |-> Encoder_zero]

\* record of a completed call: the method, its receiver before the call (an
\* Encoder in self, an LWE in lself), its arguments, how it ended and what it
\* returned
Outcome(op, self, args, r, e, n, p) ==
  [op |-> op, self |-> self, args |-> args, status |-> r.status, err |-> r.err,
   exc |-> r.exc, enc |-> e, num |-> n, pt |-> p,
   lself |-> NoLWE, other |-> NoLWE, lwe |-> NoLWE, flag |-> FALSE, src |-> Encoder_zero,
   vself |-> NoVector, vother |-> NoVector, vres |-> NoVector, list |-> << >>]

LWEOutcome(op, lself, other, args, r, lwe) ==
  [op |-> op, self |-> lself.encoder, args |-> args, status |-> r.status, err |-> r.err,
   exc |-> r.exc, enc |-> lwe.encoder, num |-> 0, pt |-> NoPlaintext,
   lself |-> lself, other |-> other, lwe |-> lwe, flag |-> FALSE, src |-> Encoder_zero,
   vself |-> NoVector, vother |-> NoVector, vres |-> NoVector, list |-> << >>]

NoOutcome == Outcome("none", Encoder_zero, NoArgs, Ok(0), Encoder_zero, 0, NoPlaintext)

NoFrame == [other |-> NoLWE, args |-> NoArgs]

Init ==
  /\ enc = Encoder_zero
  /\ ct = NoLWE
  /\ res = NoOutcome
  /\ pc = "idle"
  /\ depth = 0
  /\ frame = NoFrame
  /\ pt = NoPlaintext
  /\ vec = NoVector
  /\ got = NoHandle

CallNew ==
  /\ pc = "idle"
  /\ \E min \in Reals, max \in Reals, p \in Precisions, pad \in Paddings :
       LET r == Encoder_new(min, max, p, pad)
       IN  /\ enc' = (IF r.status = "Ok" THEN r.val ELSE enc)
           /\ res' = Outcome("new", enc, [a |-> min, b |-> max, c |-> p, d |-> pad],
                             r, r.val, 0, NoPlaintext)
  /\ UNCHANGED <<vec, got, pt, ct, pc, depth, frame>>

CallNewRoundingContext ==
  /\ pc = "idle"
  /\ \E min \in Reals, max \in Reals, p \in Precisions, pad \in Paddings :
       LET r == Encoder_new_rounding_context(min, max, p, pad)
       IN  /\ enc' = (IF r.status = "Ok" THEN r.val ELSE enc)
           /\ res' = Outcome("new_rounding_context", enc,
                             [a |-> min, b |-> max, c |-> p, d |-> pad],
                             r, r.val, 0, NoPlaintext)
  /\ UNCHANGED <<vec, got, pt, ct, pc, depth, frame>>

CallEncoderZero ==
  /\ pc = "idle"
  /\ enc' = Encoder_zero
  /\ res' = Outcome("zero", enc, NoArgs, Ok(0), Encoder_zero, 0, NoPlaintext)
  /\ UNCHANGED <<vec, got, pt, ct, pc, depth, frame>>

CallEncodeSingle ==
  /\ pc = "idle"
  /\ \E m \in Messages :
       LET r == Encoder_encode_single(enc, m)
       IN  res' = Outcome("encode_single", enc, [NoArgs EXCEPT !.a = m],
                          r, Encoder_zero, 0, r.val)
  /\ UNCHANGED <<vec, got, pt, enc, ct, pc, depth, frame>>

CallDecodeSingle ==
  /\ pc = "idle"
  /\ \E t \in Torus :
       LET r == Encoder_decode_single(enc, t)
       IN  res' = Outcome("decode_single", enc, [NoArgs EXCEPT !.a = t],
                          r, Encoder_zero, r.val, NoPlaintext)
  /\ UNCHANGED <<vec, got, pt, enc, ct, pc, depth, frame>>

NextEncoder ==
  \/ CallNew
  \/ CallNewRoundingContext
  \/ CallEncoderZero
  \/ CallEncodeSingle
  \/ CallDecodeSingle

SpecEncoder == Init /\ [][NextEncoder]_vars

---------------------------------------------------------------------------
(* concrete::LWE, from the specification.  A ciphertext is a mask and a    *)
(* body; the secret key is abstracted so that the phase is body - mask.    *)

LWESecretKey_new_raw(dimension, std_dev) == [dimension |-> dimension, std_dev |-> std_dev]

Phase(c) == (c.body - c.mask) % TorusModulus

\* encode, then encrypt with a fresh mask a and noise n drawn by the library
concrete_LWE_encode_encrypt(sk, message, encoder, a, n) ==
  IF concrete_encode_single(encoder, message).status # "Ok"
  THEN Err("MessageOutsideIntervalError", NoLWE)
  ELSE Ok([mask |-> a,
           body |-> (a + concrete_encode_core(encoder, message) + n) % TorusModulus,
           variance |-> sk.std_dev * sk.std_dev,
           dimension |-> sk.dimension,
           encoder |-> encoder])

concrete_LWE_decrypt_decode(self, sk) ==
  IF sk.dimension # self.dimension THEN Err("DimensionError", 0)
  ELSE IF ~concrete_is_valid(self.encoder) THEN Err("InvalidEncoderError", 0)
  ELSE Ok(concrete_decode_core(self.encoder, Phase(self)))

concrete_LWE_decrypt_decode_round(self, sk) ==
  concrete_LWE_decrypt_decode([self EXCEPT !.encoder.round = TRUE], sk)

\* preconditions shared by the two-ciphertext additions, "ok" when all hold
AdditionError(self, other) ==
  IF self.dimension # other.dimension THEN "DimensionError"
  ELSE IF self.encoder.delta # other.encoder.delta THEN "DeltaError"
  ELSE IF self.encoder.nb_bit_padding # other.encoder.nb_bit_padding THEN "PaddingError"
  ELSE IF self.encoder.nb_bit_padding = 0 THEN "NotEnoughPaddingError"
  ELSE "ok"

\* the sum of two ciphertexts with one bit of padding consumed and the given
\* result precision
PaddedSum(self, other, precision) ==
  [mask |-> (self.mask + other.mask) % TorusModulus,
   body |-> (self.body + other.body) % TorusModulus,
   variance |-> self.variance + other.variance,
   dimension |-> self.dimension,
   encoder |-> [o |-> self.encoder.o + other.encoder.o,
                delta |-> 2 * self.encoder.delta,
                nb_bit_precision |-> precision,
                nb_bit_padding |-> self.encoder.nb_bit_padding - 1,
                round |-> self.encoder.round]]

concrete_LWE_add_with_padding_inplace(self, other) ==
  IF AdditionError(self, other) # "ok" THEN Err(AdditionError(self, other), self)
  ELSE Ok(PaddedSum(self, other,
                    Min(self.encoder.nb_bit_precision, other.encoder.nb_bit_precision)))

concrete_LWE_add_with_padding_exact(self, other) ==
  IF AdditionError(self, other) # "ok" THEN Err(AdditionError(self, other), NoLWE)
  ELSE Ok(PaddedSum(self, other,
                    Max(self.encoder.nb_bit_precision, other.encoder.nb_bit_precision) + 1))

ZeroInInterval(e) == e.o <= 0 /\ 0 < e.o + e.delta

concrete_LWE_mul_constant_with_padding(self, constant, max_constant, nb_bit_padding) ==
  IF ~ZeroInInterval(self.encoder) THEN Err("ZeroInIntervalError", NoLWE)
  ELSE IF Abs(constant) > max_constant THEN Err("ConstantMaximumError", NoLWE)
  ELSE IF self.encoder.nb_bit_padding < nb_bit_padding THEN Err("NotEnoughPaddingError", NoLWE)
  ELSE LET scal == RoundDiv(constant * Pow2(nb_bit_padding), max_constant)
       IN  Ok([mask |-> (self.mask * scal) % TorusModulus,
               body |-> (self.body * scal) % TorusModulus,
               variance |-> self.variance * scal * scal,
               dimension |-> self.dimension,
               encoder |-> [o |-> self.encoder.o * max_constant,
                            delta |-> self.encoder.delta * max_constant,
                            nb_bit_precision |-> Min(self.encoder.nb_bit_precision, nb_bit_padding),
                            nb_bit_padding |-> self.encoder.nb_bit_padding - nb_bit_padding,
                            round |-> self.encoder.round]])

---------------------------------------------------------------------------
(* Encoder::opposite_inplace (src/src/encoder.rs) *)

Encoder_opposite_inplace_negate_o(self) == [self EXCEPT !.o = 0 - self.o]
Encoder_opposite_inplace(self) ==
  LET old_max == self.o + self.delta - concrete_get_granularity(self)
      new_o == 0 - old_max
  IN  [self EXCEPT !.o = new_o]

\* concrete::Encoder::opposite_inplace, from the specification: the new
\* interval is [-old_max, -old_max + delta)
concrete_Encoder_opposite_inplace(self) ==
  [self EXCEPT !.o = 0 - (self.o + self.delta - concrete_get_granularity(self))]

\* concrete::LWE::opposite, from the specification: negate mask and body,
\* re-centre the body on the mirrored grid, and call the Encoder's
\* opposite_inplace
concrete_LWE_opposite(self) ==
  IF ~concrete_is_valid(self.encoder) THEN Err("InvalidEncoderError", self)
  ELSE LET cor == (Pow2(self.encoder.nb_bit_precision) - 1) * Pow2(Shift(self.encoder))
       IN  Ok([self EXCEPT !.mask = (0 - self.mask) % TorusModulus,
                           !.body = (0 - self.body + cor) % TorusModulus,
                           !.encoder = concrete_Encoder_opposite_inplace(self.encoder)])

---------------------------------------------------------------------------
(* LWE (src/src/lwe.rs) *)

LWE_encode_encrypt(sk, message, encoder, a, n) ==
  translate_error(concrete_LWE_encode_encrypt(sk, message, encoder, a, n))

LWE_decrypt_decode_round(self, sk) ==
  translate_error(concrete_LWE_decrypt_decode_round(self, sk))

LWE_add_with_padding_inplace_keep_padding(self, other) ==
  LET r == translate_error(concrete_LWE_add_with_padding_inplace(self, other))
  IN  IF r.status = "Ok"
      THEN [r EXCEPT !.val.encoder.nb_bit_padding = self.encoder.nb_bit_padding]
      ELSE r
LWE_add_with_padding_inplace(self, other) ==
  translate_error(concrete_LWE_add_with_padding_inplace(self, other))

LWE_add_with_padding_exact(self, other) ==
  translate_error(concrete_LWE_add_with_padding_exact(self, other))

LWE_mul_constant_with_padding_no_max(self, constant, max_constant, nb_bit_padding) ==
  translate_error(concrete_LWE_mul_constant_with_padding(self, constant, Abs(constant) + 1,
                                                         nb_bit_padding))
LWE_mul_constant_with_padding(self, constant, max_constant, nb_bit_padding) ==
  translate_error(concrete_LWE_mul_constant_with_padding(self, constant, max_constant,
                                                         nb_bit_padding))

LWE_opposite(self) == translate_error(concrete_LWE_opposite(self))

LWE_opposite_inplace(self) == translate_error(concrete_LWE_opposite(self))

\* the method each of these binding methods calls in its body: itself
\* (self.add_with_padding(..), not self.data.add_with_padding(..))
LWE_add_with_padding_callee == "add_with_padding"
LWE_add_with_padding_exact_inplace_callee == "add_with_padding_exact_inplace"
LWE_mul_from_bootstrap_callee == "mul_from_bootstrap"
LWE_remove_padding_inplace_callee == "remove_padding_inplace"

SelfCalling ==
  {m \in {"add_with_padding", "add_with_padding_exact_inplace", "mul_from_bootstrap",
          "remove_padding_inplace"} :
     \/ (m = "add_with_padding" /\ LWE_add_with_padding_callee = m)
     \/ (m = "add_with_padding_exact_inplace" /\ LWE_add_with_padding_exact_inplace_callee = m)
     \/ (m = "mul_from_bootstrap" /\ LWE_mul_from_bootstrap_callee = m)
     \/ (m = "remove_padding_inplace" /\ LWE_remove_padding_inplace_callee = m)}

---------------------------------------------------------------------------
(* State machine of a host session driving the LWE API *)

\* encoders the host builds for its ciphertexts
LWEEncoders ==
  {Encoder_new(-4, 4, 2, 1).val, Encoder_new(-4, 4, 1, 1).val, Encoder_new(-4, 4, 2, 2).val,
   Encoder_new(-4, 4, 1, 2).val, Encoder_new(-4, 4, 2, 0).val, Encoder_new(2, 6, 2, 1).val,
   Encoder_new(2, 6, 1, 2).val, Encoder_new_rounding_context(-4, 4, 2, 1).val}
LWEMessages == {-2, 0, 2}
Masks == {5}
Noises == {-1, 0, 1}
Constants == {-3, 1, 2}
MaxConstants == {1, 2}
MulPaddings == {1, 2}

\* ciphertexts another part of the host program has produced by encode_encrypt
OtherEncoders ==
  {Encoder_new(-4, 4, 2, 1).val, Encoder_new(-4, 4, 1, 1).val, Encoder_new(-4, 0, 2, 1).val,
   Encoder_new(-4, 4, 2, 2).val, Encoder_new(-4, 4, 2, 0).val}
FreshLWEs ==
  {LWE_encode_encrypt(LWESecretKey_new_raw(630, 1), -2, e, 9, 0).val : e \in OtherEncoders}
    \cup {LWE_encode_encrypt(LWESecretKey_new_raw(1024, 1), -2, Encoder_new(-4, 4, 2, 1).val, 9, 0).val}

HasLWE == ct.dimension > 0

CallEncodeEncrypt ==
  /\ pc = "idle"
  /\ \E d \in Dimensions, m \in LWEMessages, e \in LWEEncoders, a \in Masks, n \in Noises :
       LET r == LWE_encode_encrypt(LWESecretKey_new_raw(d, 1), m, e, a, n)
       IN  /\ ct' = (IF r.status = "Ok" THEN r.val ELSE ct)
           /\ res' = LWEOutcome("encode_encrypt", NoLWE, NoLWE, [NoArgs EXCEPT !.a = m, !.b = d],
                                r, r.val)
  /\ UNCHANGED <<vec, got, pt, enc, pc, depth, frame>>

\* entry into a binding method whose body calls the method itself
Enter(method, other, args) ==
  /\ pc = "idle"
  /\ HasLWE
  /\ method \in SelfCalling
  /\ pc' = method
  /\ depth' = 1
  /\ frame' = [other |-> other, args |-> args]
  /\ res' = LWEOutcome(method, ct, other, args,
                       [status |-> "Running", err |-> "none", exc |-> "none"], NoLWE)
  /\ UNCHANGED <<vec, got, pt, enc, ct>>

CallAddWithPadding == \E other \in FreshLWEs : Enter("add_with_padding", other, NoArgs)

CallAddWithPaddingExactInplace ==
  \E other \in FreshLWEs : Enter("add_with_padding_exact_inplace", other, NoArgs)

CallMulFromBootstrap ==
  \E other \in FreshLWEs, d \in Dimensions :
    Enter("mul_from_bootstrap", other, [NoArgs EXCEPT !.a = d])

\* the body of the running method calls the same method again
Reenter ==
  /\ pc \in SelfCalling
  /\ depth < StackLimit
  /\ depth' = depth + 1
  /\ UNCHANGED <<vec, got, pt, enc, ct, res, pc, frame>>

\* the call stack is exhausted: the process aborts without returning
StackOverflow ==
  /\ pc \in SelfCalling
  /\ depth = StackLimit
  /\ res' = LWEOutcome(pc, ct, frame.other, frame.args,
                       [status |-> "Abort", err |-> "none", exc |-> "stack overflow"], NoLWE)
  /\ pc' = "aborted"
  /\ UNCHANGED <<vec, got, pt, enc, ct, depth, frame>>

CallAddWithPaddingInplace ==
  /\ pc = "idle"
  /\ HasLWE
  /\ \E other \in FreshLWEs :
       LET r == LWE_add_with_padding_inplace(ct, other)
       IN  /\ ct' = (IF r.status = "Ok" THEN r.val ELSE ct)
           /\ res' = LWEOutcome("add_with_padding_inplace", ct, other, NoArgs, r, r.val)
  /\ UNCHANGED <<vec, got, pt, enc, pc, depth, frame>>

CallAddWithPaddingExact ==
  /\ pc = "idle"
  /\ HasLWE
  /\ \E other \in FreshLWEs :
       LET r == LWE_add_with_padding_exact(ct, other)
       IN  res' = LWEOutcome("add_with_padding_exact", ct, other, NoArgs, r, r.val)
  /\ UNCHANGED <<vec, got, pt, enc, ct, pc, depth, frame>>

CallMulConstantWithPadding ==
  /\ pc = "idle"
  /\ HasLWE
  /\ \E c \in Constants, mc \in MaxConstants, nb \in MulPaddings :
       LET r == LWE_mul_constant_with_padding(ct, c, mc, nb)
       IN  res' = LWEOutcome("mul_constant_with_padding", ct, NoLWE,
                             [NoArgs EXCEPT !.a = c, !.b = mc, !.c = nb], r, r.val)
  /\ UNCHANGED <<vec, got, pt, enc, ct, pc, depth, frame>>

CallOpposite ==
  /\ pc = "idle"
  /\ HasLWE
  /\ LET r == LWE_opposite(ct)
     IN  res' = LWEOutcome("opposite", ct, NoLWE, NoArgs, r, r.val)
  /\ UNCHANGED <<vec, got, pt, enc, ct, pc, depth, frame>>

CallOppositeInplace ==
  /\ pc = "idle"
  /\ HasLWE
  /\ LET r == LWE_opposite_inplace(ct)
     IN  /\ ct' = (IF r.status = "Ok" THEN r.val ELSE ct)
         /\ res' = LWEOutcome("opposite_inplace", ct, NoLWE, NoArgs, r, r.val)
  /\ UNCHANGED <<vec, got, pt, enc, pc, depth, frame>>

NextLWE ==
  \/ CallEncodeEncrypt
  \/ CallAddWithPadding
  \/ CallAddWithPaddingInplace
  \/ CallAddWithPaddingExact
  \/ CallAddWithPaddingExactInplace
  \/ CallMulFromBootstrap
  \/ CallMulConstantWithPadding
  \/ CallOpposite
  \/ CallOppositeInplace
  \/ Reenter
  \/ StackOverflow

SpecLWE == Init /\ [][NextLWE]_vars

---------------------------------------------------------------------------
(* Encoder: field setters, derived values, copy (src/src/encoder.rs) *)

Encoder_set_o(self, v) == [self EXCEPT !.o = v]
Encoder_set_delta(self, v) == [self EXCEPT !.delta = v]
Encoder_set_nb_bit_precision(self, v) == [self EXCEPT !.nb_bit_precision = v]
Encoder_set_nb_bit_padding(self, v) == [self EXCEPT !.nb_bit_padding = v]
Encoder_set_round(self, v) == [self EXCEPT !.round = v]

\* concrete::Encoder::new_centered, from the specification: the encoder of
\* [center - radius, center + radius)
concrete_Encoder_new_centered(center, radius, nb_bit_precision, nb_bit_padding) ==
  concrete_Encoder_new(center - radius, center + radius, nb_bit_precision, nb_bit_padding)

Encoder_new_centered(center, radius, nb_bit_precision, nb_bit_padding) ==
  translate_error(concrete_Encoder_new_centered(center, radius, nb_bit_precision,
                                                nb_bit_padding))

Encoder_get_min(self) == self.o

Encoder_get_max_open(self) == self.o + self.delta
Encoder_get_max(self) == self.o + self.delta - concrete_get_granularity(self)

Encoder_get_size(self) == self.delta - concrete_get_granularity(self)

\* copy assigns four fields of the argument; round is not among them
Encoder_copy(self, encoder) ==
  [self EXCEPT !.o = encoder.o,
               !.delta = encoder.delta,
               !.nb_bit_precision = encoder.nb_bit_precision,
               !.nb_bit_padding = encoder.nb_bit_padding]

---------------------------------------------------------------------------
(* State machine of a host session reading and writing one Encoder object *)

MaxO == 4

Centers == {-2, 0, 2}
Radii == {0, 2}
Deltas == {-4, 4, 8}
CopySources ==
  {Encoder_zero, Encoder_new(-4, 4, 2, 1).val,
   Encoder_new_rounding_context(-4, 4, 2, 1).val, Encoder_new_rounding_context(0, 4, 1, 0).val}

FlagOutcome(op, self, b) ==
  [Outcome(op, self, NoArgs, Ok(0), self, 0, NoPlaintext) EXCEPT !.flag = b]

CopyOutcome(op, self, src, e) ==
  [Outcome(op, self, NoArgs, Ok(0), e, 0, NoPlaintext) EXCEPT !.src = src]

CallNewCentered ==
  /\ pc = "idle"
  /\ \E c \in Centers, r \in Radii, p \in Precisions, pad \in Paddings :
       LET x == Encoder_new_centered(c, r, p, pad)
       IN  /\ enc' = (IF x.status = "Ok" THEN x.val ELSE enc)
           /\ res' = Outcome("new_centered", enc, [a |-> c, b |-> r, c |-> p, d |-> pad],
                             x, x.val, 0, NoPlaintext)
  /\ UNCHANGED <<vec, got, pt, ct, pc, depth, frame>>

\* a setter call; field is the name of the property assigned
SetterCall(field, v, e) ==
  /\ pc = "idle"
  /\ enc' = e
  /\ res' = Outcome(field, enc, [NoArgs EXCEPT !.a = v], Ok(0), e, 0, NoPlaintext)
  /\ UNCHANGED <<vec, got, pt, ct, pc, depth, frame>>

CallSetO == \E v \in Reals : SetterCall("set_o", v, Encoder_set_o(enc, v))

CallSetDelta == \E v \in Deltas : SetterCall("set_delta", v, Encoder_set_delta(enc, v))

CallSetNbBitPrecision ==
  \E v \in Precisions : SetterCall("set_nb_bit_precision", v, Encoder_set_nb_bit_precision(enc, v))

CallSetNbBitPadding ==
  \E v \in Paddings : SetterCall("set_nb_bit_padding", v, Encoder_set_nb_bit_padding(enc, v))

CallSetRound ==
  \E v \in BOOLEAN :
    SetterCall("set_round", IF v THEN 1 ELSE 0, Encoder_set_round(enc, v))

CallIsValid ==
  /\ pc = "idle"
  /\ res' = FlagOutcome("is_valid", enc, Encoder_is_valid(enc))
  /\ UNCHANGED <<vec, got, pt, enc, ct, pc, depth, frame>>

\* a getter call returning the f64 n
GetterCall(op, n) ==
  /\ pc = "idle"
  /\ res' = Outcome(op, enc, NoArgs, Ok(n), enc, n, NoPlaintext)
  /\ UNCHANGED <<vec, got, pt, enc, ct, pc, depth, frame>>

CallGetGranularity == GetterCall("get_granularity", Encoder_get_granularity(enc))

CallGetMin == GetterCall("get_min", Encoder_get_min(enc))

CallGetMax == GetterCall("get_max", Encoder_get_max(enc))

CallGetSize == GetterCall("get_size", Encoder_get_size(enc))

CallCopy ==
  /\ pc = "idle"
  /\ \E src \in CopySources :
       /\ enc' = Encoder_copy(enc, src)
       /\ res' = CopyOutcome("copy", enc, src, Encoder_copy(enc, src))
  /\ UNCHANGED <<vec, got, pt, ct, pc, depth, frame>>

\* Encoder::opposite_inplace always returns Ok(())
CallEncoderOppositeInplace ==
  /\ pc = "idle"
  /\ Abs(enc.o) <= MaxO
  /\ enc' = Encoder_opposite_inplace(enc)
  /\ res' = Outcome("Encoder.opposite_inplace", enc, NoArgs, Ok(0), Encoder_opposite_inplace(enc),
                    0, NoPlaintext)
  /\ UNCHANGED <<vec, got, pt, ct, pc, depth, frame>>

NextEncoderState ==
  \/ CallNewCentered
  \/ CallEncoderZero
  \/ CallSetO
  \/ CallSetDelta
  \/ CallSetNbBitPrecision
  \/ CallSetNbBitPadding
  \/ CallSetRound
  \/ CallIsValid
  \/ CallGetGranularity
  \/ CallGetMin
  \/ CallGetMax
  \/ CallGetSize
  \/ CallCopy
  \/ CallEncoderOppositeInplace

SpecEncoderState == Init /\ [][NextEncoderState]_vars

---------------------------------------------------------------------------
(* concrete::LWE: zero, constant operations and bootstrap, from the         *)
(* specification                                                            *)

concrete_LWE_zero(dimension) ==
  Ok([mask |-> 0, body |-> 0, variance |-> 0, dimension |-> dimension,
      encoder |-> Encoder_zero])

\* the Torus value that adding the constant message contributes to a body
\* encoded under e
ConstantShift(e, message) ==
  LET g == concrete_get_granularity(e)
      idx == IF e.round THEN RoundDiv(message, g) ELSE FloorDiv(message, g)
  IN  (idx * Pow2(Shift(e))) % TorusModulus

\* adds the encoded constant to the body; the Encoder is not touched and the
\* constant is not compared with the interval or the padding
concrete_LWE_add_constant_static_encoder(self, message) ==
  IF ~concrete_is_valid(self.encoder) THEN Err("InvalidEncoderError", NoLWE)
  ELSE Ok([self EXCEPT !.body = (self.body + ConstantShift(self.encoder, message))
                                  % TorusModulus])

\* translates the interval by message; mask, body and variance are kept
concrete_LWE_add_constant_dynamic_encoder(self, message) ==
  IF ~concrete_is_valid(self.encoder) THEN Err("InvalidEncoderError", NoLWE)
  ELSE Ok([self EXCEPT !.encoder.o = self.encoder.o + message])

\* multiplies mask and body by the integer; the Encoder is not touched
concrete_LWE_mul_constant_static_encoder(self, message) ==
  Ok([self EXCEPT !.mask = (self.mask * message) % TorusModulus,
                  !.body = (self.body * message) % TorusModulus,
                  !.variance = self.variance * message * message])

LWEBSK_new(dimension) == [dimension |-> dimension]

\* the functions a caller passes to bootstrap_with_function
ApplyFunction(f, x) == IF f = "identity" THEN x ELSE IF f = "relu" THEN Max(0, x) ELSE 0 - x

\* the message of the encoder's grid nearest to x, clamped to the interval
ClampToGrid(e, x) ==
  LET g == concrete_get_granularity(e)
      idx == RoundDiv(x - e.o, g)
  IN  e.o + Max(0, Min(Pow2(e.nb_bit_precision) - 1, idx)) * g

\* programmable bootstrap: a fresh ciphertext of f(decoded input) under
\* encoder_output
concrete_LWE_bootstrap_with_function(self, bsk, f, encoder_output) ==
  IF bsk.dimension # self.dimension THEN Err("DimensionError", NoLWE)
  ELSE IF ~concrete_is_valid(self.encoder) \/ ~concrete_is_valid(encoder_output)
  THEN Err("InvalidEncoderError", NoLWE)
  ELSE LET x == concrete_decode_core([self.encoder EXCEPT !.round = TRUE], Phase(self))
           y == ClampToGrid(encoder_output, ApplyFunction(f, x))
       IN  Ok([mask |-> 0,
               body |-> concrete_encode_core(encoder_output, y),
               variance |-> 1,
               dimension |-> self.dimension,
               encoder |-> encoder_output])

---------------------------------------------------------------------------
(* LWE: field setters, constant operations and bootstrap (src/src/lwe.rs) *)

\* Result::unwrap: the value of Ok, a panic on Err
unwrap(r) ==
  IF r.status = "Ok" THEN r ELSE [r EXCEPT !.status = "Panic", !.exc = "PanicException"]

LWE_set_variance(self, v) == [self EXCEPT !.variance = v]

LWE_set_encoder(self, v) == [self EXCEPT !.encoder = v]

LWE_zero(dimension) == translate_error(concrete_LWE_zero(dimension))

LWE_add_constant_static_encoder(self, message) ==
  unwrap(translate_error(concrete_LWE_add_constant_static_encoder(self, message)))

LWE_add_constant_static_encoder_inplace_dynamic(self, message) ==
  translate_error(concrete_LWE_add_constant_dynamic_encoder(self, message))
LWE_add_constant_static_encoder_inplace(self, message) ==
  translate_error(concrete_LWE_add_constant_static_encoder(self, message))

LWE_add_constant_dynamic_encoder(self, message) ==
  unwrap(translate_error(concrete_LWE_add_constant_dynamic_encoder(self, message)))

LWE_add_constant_dynamic_encoder_inplace(self, message) ==
  translate_error(concrete_LWE_add_constant_dynamic_encoder(self, message))

LWE_mul_constant_static_encoder(self, message) ==
  translate_error(concrete_LWE_mul_constant_static_encoder(self, message))

LWE_mul_constant_static_encoder_inplace(self, message) ==
  translate_error(concrete_LWE_mul_constant_static_encoder(self, message))

\* bootstrap returns the library's Result as it is: translate_error! is not applied
LWE_bootstrap(self, bsk) ==
  concrete_LWE_bootstrap_with_function(self, bsk, "identity", self.encoder)

LWE_bootstrap_with_function(self, bsk, f, encoder_output) ==
  translate_error(concrete_LWE_bootstrap_with_function(self, bsk, f, encoder_output))

---------------------------------------------------------------------------
(* State machine of a host session working on one LWE object through its   *)
(* setters, the constant operations and bootstrap                           *)

MaxVariance == 2

ZeroDimensions == {630}
SetEncoders ==
  {Encoder_zero, Encoder_new(-4, 4, 2, 1).val, Encoder_new_rounding_context(-4, 4, 1, 2).val}
Variances == {0, 2}
AddConstants == {-2, 2, 100}
MulConstants == {-1, 2, 100}
BSKDimensions == {630, 1024}
Functions == {"identity", "relu"}
OutputEncoders == {Encoder_new(-4, 4, 2, 1).val, Encoder_new(0, 4, 1, 2).val}

CallLWEZero ==
  /\ pc = "idle"
  /\ \E d \in ZeroDimensions :
       LET r == LWE_zero(d)
       IN  /\ ct' = (IF r.status = "Ok" THEN r.val ELSE ct)
           /\ res' = LWEOutcome("zero", NoLWE, NoLWE, [NoArgs EXCEPT !.a = d], r, r.val)
  /\ UNCHANGED <<vec, got, pt, enc, pc, depth, frame>>

CallSetVariance ==
  /\ pc = "idle"
  /\ HasLWE
  /\ \E v \in Variances :
       /\ ct' = LWE_set_variance(ct, v)
       /\ res' = LWEOutcome("set_variance", ct, NoLWE, [NoArgs EXCEPT !.a = v], Ok(0),
                            LWE_set_variance(ct, v))
  /\ UNCHANGED <<vec, got, pt, enc, pc, depth, frame>>

CallSetEncoder ==
  /\ pc = "idle"
  /\ HasLWE
  /\ \E v \in SetEncoders :
       /\ ct' = LWE_set_encoder(ct, v)
       /\ res' = [LWEOutcome("set_encoder", ct, NoLWE, NoArgs, Ok(0), LWE_set_encoder(ct, v))
                    EXCEPT !.src = v]
  /\ UNCHANGED <<vec, got, pt, enc, pc, depth, frame>>

\* a method that returns a new LWE and leaves self as it is
ValueCall(op, args, r) ==
  /\ pc = "idle"
  /\ HasLWE
  /\ res' = LWEOutcome(op, ct, NoLWE, args, r, r.val)
  /\ UNCHANGED <<vec, got, pt, enc, ct, pc, depth, frame>>

\* a method that works on self and returns PyResult<()>
InplaceCall(op, args, r) ==
  /\ pc = "idle"
  /\ HasLWE
  /\ ct' = (IF r.status = "Ok" THEN r.val ELSE ct)
  /\ res' = LWEOutcome(op, ct, NoLWE, args, r, IF r.status = "Ok" THEN r.val ELSE ct)
  /\ UNCHANGED <<vec, got, pt, enc, pc, depth, frame>>

CallAddConstantStaticEncoder ==
  \E m \in AddConstants :
    ValueCall("add_constant_static_encoder", [NoArgs EXCEPT !.a = m],
              LWE_add_constant_static_encoder(ct, m))

CallAddConstantStaticEncoderInplace ==
  \E m \in AddConstants :
    InplaceCall("add_constant_static_encoder_inplace", [NoArgs EXCEPT !.a = m],
                LWE_add_constant_static_encoder_inplace(ct, m))

CallAddConstantDynamicEncoder ==
  \E m \in AddConstants :
    ValueCall("add_constant_dynamic_encoder", [NoArgs EXCEPT !.a = m],
              LWE_add_constant_dynamic_encoder(ct, m))

CallAddConstantDynamicEncoderInplace ==
  /\ Abs(ct.encoder.o) <= MaxO
  /\ \E m \in AddConstants :
       InplaceCall("add_constant_dynamic_encoder_inplace", [NoArgs EXCEPT !.a = m],
                   LWE_add_constant_dynamic_encoder_inplace(ct, m))

CallMulConstantStaticEncoder ==
  \E k \in MulConstants :
    ValueCall("mul_constant_static_encoder", [NoArgs EXCEPT !.a = k],
              LWE_mul_constant_static_encoder(ct, k))

CallMulConstantStaticEncoderInplace ==
  /\ ct.variance <= MaxVariance
  /\ \E k \in MulConstants :
       InplaceCall("mul_constant_static_encoder_inplace", [NoArgs EXCEPT !.a = k],
                   LWE_mul_constant_static_encoder_inplace(ct, k))

CallBootstrap ==
  \E d \in BSKDimensions :
    ValueCall("bootstrap", [NoArgs EXCEPT !.a = d], LWE_bootstrap(ct, LWEBSK_new(d)))

CallBootstrapWithFunction ==
  \E d \in BSKDimensions, f \in Functions, e \in OutputEncoders :
    /\ ValueCall("bootstrap_with_function", [NoArgs EXCEPT !.a = d],
                 LWE_bootstrap_with_function(ct, LWEBSK_new(d), f, e))

NextLWEObject ==
  \/ CallLWEZero
  \/ CallSetVariance
  \/ CallSetEncoder
  \/ CallAddConstantStaticEncoder
  \/ CallAddConstantStaticEncoderInplace
  \/ CallAddConstantDynamicEncoder
  \/ CallAddConstantDynamicEncoderInplace
  \/ CallMulConstantStaticEncoder
  \/ CallMulConstantStaticEncoderInplace
  \/ CallBootstrap
  \/ CallBootstrapWithFunction

SpecLWEObject == Init /\ [][NextLWEObject]_vars

---------------------------------------------------------------------------
(* Plaintext: the backend's operations (concrete::Plaintext)               *)

\* largest number of slots of a Plaintext the host builds
MaxSlots == 2

\* the sequences over S of length at most n
SeqsUpTo(S, n) == UNION {[1..k -> S] : k \in 0..n}

\* one shared Encoder applied to every message; fails as encode_single fails
concrete_Plaintext_encode(messages, encoder) ==
  LET n == Len(messages)
      rs == [i \in 1..n |-> concrete_encode_single(encoder, messages[i])]
  IN  IF \E i \in 1..n : rs[i].status = "Err"
      THEN Err("MessageOutsideIntervalError", NoPlaintext)
      ELSE Ok([encoders |-> [i \in 1..n |-> encoder],
               plaintexts |-> [i \in 1..n |-> rs[i].val.plaintexts[1]],
               nb_plaintexts |-> n])

\* re-encodes slot by slot with the Encoder already assigned to the slot;
\* fails if the number of messages is not nb_plaintexts (the specification
\* does not name the kind of that failure)
concrete_Plaintext_encode_inplace(self, messages) ==
  IF Len(messages) # self.nb_plaintexts THEN Err("SizeError", self)
  ELSE LET n == Min(Len(messages), Min(Len(self.encoders), Len(self.plaintexts)))
           rs == [i \in 1..n |-> concrete_encode_single(self.encoders[i], messages[i])]
       IN  IF \E i \in 1..n : rs[i].status = "Err"
           THEN Err("MessageOutsideIntervalError", self)
           ELSE Ok([self EXCEPT !.plaintexts =
                      [i \in 1..Len(self.plaintexts) |->
                         IF i <= n THEN rs[i].val.plaintexts[1] ELSE self.plaintexts[i]]])

\* the backend's Encoder::copy: a value copy of every field
concrete_Encoder_copy(self, encoder) ==
  [self EXCEPT !.o = encoder.o, !.delta = encoder.delta,
               !.nb_bit_precision = encoder.nb_bit_precision,
               !.nb_bit_padding = encoder.nb_bit_padding, !.round = encoder.round]

\* copies the given encoders into the slots, slot by slot
concrete_Plaintext_set_encoders(self, encoders) ==
  [self EXCEPT !.encoders =
     [i \in 1..Len(self.encoders) |->
        IF i <= Len(encoders) THEN concrete_Encoder_copy(self.encoders[i], encoders[i])
        ELSE self.encoders[i]]]

\* copies one encoder into every slot
concrete_Plaintext_set_encoders_from_one(self, encoder) ==
  [self EXCEPT !.encoders =
     [i \in 1..Len(self.encoders) |-> concrete_Encoder_copy(self.encoders[i], encoder)]]

---------------------------------------------------------------------------
(* Plaintext: the binding's methods (plaintext.rs)                         *)

\* an element of a host list: an Encoder object or some other object
PyEncoder(e) == [is_encoder |-> TRUE, data |-> e]
PyOther == [is_encoder |-> FALSE, data |-> Encoder_zero]

Plaintext_set_plaintexts(self, v) == [self EXCEPT !.plaintexts = v]

Plaintext_set_nb_plaintexts(self, v) == [self EXCEPT !.nb_plaintexts = v]

Plaintext_zero(nb_plaintexts) ==
  [encoders |-> [i \in 1..nb_plaintexts |-> Encoder_zero],
   plaintexts |-> [i \in 1..nb_plaintexts |-> 0],
   nb_plaintexts |-> nb_plaintexts]

\* the backend's result is unwrapped, not translated
Plaintext_encode(messages, encoder) ==
  unwrap(concrete_Plaintext_encode(messages, encoder))

Plaintext_encode_inplace(self, messages) ==
  translate_error(concrete_Plaintext_encode_inplace(self, messages))

\* every element is extracted as an Encoder and unwrapped, then the backend
\* assigns the list
Plaintext_set_encoders(self, encoders) ==
  IF \E i \in 1..Len(encoders) : ~encoders[i].is_encoder
  THEN unwrap(Err("TypeError", self))
  ELSE Ok(concrete_Plaintext_set_encoders(self, [i \in 1..Len(encoders) |-> encoders[i].data]))

Plaintext_set_encoders_from_one(self, encoder) ==
  Ok(concrete_Plaintext_set_encoders_from_one(self, encoder))

\* self.data.encoders[nth] is an unchecked index: out of range it panics
Plaintext_set_nth_encoder(self, nth, encoder) ==
  IF nth >= Len(self.encoders)
  THEN unwrap(Err("IndexOutOfBounds", self))
  ELSE Ok([self EXCEPT !.encoders[nth + 1] = concrete_Encoder_copy(@, encoder)])

---------------------------------------------------------------------------
(* State machine of a host session working on one Plaintext object         *)

PlaintextEncoders ==
  {[o |-> -4, delta |-> 8, nb_bit_precision |-> 2, nb_bit_padding |-> 1, round |-> FALSE],
   [o |-> 0, delta |-> 4, nb_bit_precision |-> 1, nb_bit_padding |-> 1, round |-> TRUE]}

PlaintextMessages == {-4, 2, 5}
MessageLists == SeqsUpTo(PlaintextMessages, MaxSlots)
EncoderLists == SeqsUpTo({PyEncoder(e) : e \in PlaintextEncoders} \cup {PyOther}, MaxSlots)
TorusLists == SeqsUpTo({0, 16}, MaxSlots)
SlotCounts == 0..MaxSlots

\* a call that ends with r; on success the host's Plaintext becomes r.val
PlaintextCall(op, args, r) ==
  /\ pc = "idle"
  /\ pt' = (IF r.status = "Ok" THEN r.val ELSE pt)
  /\ res' = Outcome(op, Encoder_zero, args, r, Encoder_zero, 0,
                    IF r.status = "Ok" THEN r.val ELSE pt)
  /\ UNCHANGED <<vec, got, enc, ct, pc, depth, frame>>

CallPlaintextZero ==
  \E n \in SlotCounts :
    PlaintextCall("Plaintext.zero", [NoArgs EXCEPT !.a = n], Ok(Plaintext_zero(n)))

CallPlaintextEncode ==
  \E ms \in MessageLists, e \in PlaintextEncoders :
    PlaintextCall("Plaintext.encode", [NoArgs EXCEPT !.a = Len(ms)], Plaintext_encode(ms, e))

CallPlaintextEncodeInplace ==
  \E ms \in MessageLists :
    PlaintextCall("Plaintext.encode_inplace", [NoArgs EXCEPT !.a = Len(ms)],
                  Plaintext_encode_inplace(pt, ms))

CallPlaintextSetEncoders ==
  \E es \in EncoderLists :
    PlaintextCall("Plaintext.set_encoders", [NoArgs EXCEPT !.a = Len(es)],
                  Plaintext_set_encoders(pt, es))

CallPlaintextSetEncodersFromOne ==
  \E e \in PlaintextEncoders :
    PlaintextCall("Plaintext.set_encoders_from_one", NoArgs,
                  Plaintext_set_encoders_from_one(pt, e))

CallPlaintextSetNthEncoder ==
  \E nth \in SlotCounts, e \in PlaintextEncoders :
    PlaintextCall("Plaintext.set_nth_encoder", [NoArgs EXCEPT !.a = nth],
                  Plaintext_set_nth_encoder(pt, nth, e))

CallPlaintextSetPlaintexts ==
  \E v \in TorusLists :
    PlaintextCall("Plaintext.set_plaintexts", [NoArgs EXCEPT !.a = Len(v)],
                  Ok(Plaintext_set_plaintexts(pt, v)))

CallPlaintextSetNbPlaintexts ==
  \E v \in SlotCounts :
    PlaintextCall("Plaintext.set_nb_plaintexts", [NoArgs EXCEPT !.a = v],
                  Ok(Plaintext_set_nb_plaintexts(pt, v)))

NextPlaintext ==
  \/ CallPlaintextZero
  \/ CallPlaintextEncode
  \/ CallPlaintextEncodeInplace
  \/ CallPlaintextSetEncoders
  \/ CallPlaintextSetEncodersFromOne
  \/ CallPlaintextSetNthEncoder
  \/ CallPlaintextSetPlaintexts
  \/ CallPlaintextSetNbPlaintexts

SpecPlaintext == Init /\ [][NextPlaintext]_vars

---------------------------------------------------------------------------
(* LWE: in-place operations on one ciphertext (src/src/lwe.rs)             *)

\* the body names the backend's mul_constant_static_encoder_inplace, with the
\* three arguments of the padding form; the constant is the first of them
LWE_mul_constant_with_padding_inplace(self, constant, max_constant, nb_bit_padding) ==
  translate_error(concrete_LWE_mul_constant_static_encoder(self, constant))

\* encoders and operands of a host that adds ciphertexts in place until the
\* padding is used up: every sum doubles delta and takes one bit of padding
InplaceEncoders ==
  {Encoder_new(-4, 4, 2, 2).val, Encoder_new(-4, 4, 2, 1).val, Encoder_new(2, 6, 1, 1).val}
InplaceOthers ==
  {LWE_encode_encrypt(LWESecretKey_new_raw(630, 1), -2, e, 9, 0).val :
     e \in {Encoder_new(-4, 4, 2, 2).val, Encoder_new(-4, 4, 2, 1).val,
            Encoder_new(-8, 8, 2, 1).val, Encoder_new(-8, 8, 2, 0).val,
            Encoder_new(-16, 16, 2, 0).val}}
RemoveBits == {0, 1, 3}

CallEncodeEncryptOne ==
  /\ pc = "idle"
  /\ \E m \in {-2, 2}, e \in InplaceEncoders :
       LET r == LWE_encode_encrypt(LWESecretKey_new_raw(630, 1), m, e, 5, 0)
       IN  /\ ct' = (IF r.status = "Ok" THEN r.val ELSE ct)
           /\ res' = LWEOutcome("encode_encrypt", NoLWE, NoLWE, [NoArgs EXCEPT !.a = m, !.b = 630],
                                r, r.val)
  /\ UNCHANGED <<vec, got, pt, enc, pc, depth, frame>>

CallAddWithPaddingInplaceChain ==
  /\ pc = "idle"
  /\ HasLWE
  /\ \E other \in InplaceOthers :
       LET r == LWE_add_with_padding_inplace(ct, other)
       IN  /\ ct' = (IF r.status = "Ok" THEN r.val ELSE ct)
           /\ res' = LWEOutcome("add_with_padding_inplace", ct, other, NoArgs, r,
                                IF r.status = "Ok" THEN r.val ELSE ct)
  /\ UNCHANGED <<vec, got, pt, enc, pc, depth, frame>>

CallMulConstantWithPaddingInplace ==
  /\ ct.variance <= MaxVariance
  /\ \E c \in Constants, mc \in MaxConstants, nb \in MulPaddings :
       InplaceCall("mul_constant_with_padding_inplace",
                   [NoArgs EXCEPT !.a = c, !.b = mc, !.c = nb],
                   LWE_mul_constant_with_padding_inplace(ct, c, mc, nb))

CallRemovePaddingInplace ==
  \E nb \in RemoveBits : Enter("remove_padding_inplace", NoLWE, [NoArgs EXCEPT !.a = nb])

NextLWEInplace ==
  \/ CallEncodeEncryptOne
  \/ CallAddWithPaddingInplaceChain
  \/ CallMulConstantWithPaddingInplace
  \/ CallRemovePaddingInplace
  \/ CallAddConstantStaticEncoderInplace
  \/ CallAddConstantDynamicEncoderInplace
  \/ CallMulConstantStaticEncoderInplace
  \/ Reenter
  \/ StackOverflow

SpecLWEInplace == Init /\ [][NextLWEInplace]_vars

\* the host calls the four methods whose body names the method itself; a call
\* in progress goes on (weak fairness): the body runs and the stack is finite
NextLWECalls ==
  \/ CallEncodeEncryptOne
  \/ CallAddWithPadding
  \/ CallAddWithPaddingExactInplace
  \/ CallMulFromBootstrap
  \/ CallRemovePaddingInplace
  \/ Reenter
  \/ StackOverflow

SpecLWECalls ==
  Init /\ [][NextLWECalls]_vars /\ WF_vars(Reenter) /\ WF_vars(StackOverflow)

---------------------------------------------------------------------------
(* Encoder::opposite_inplace in floating point (src/src/encoder.rs)        *)
(* o and delta are f64: every sum and difference is rounded to the nearest *)
(* value of the format, ties to even. The format is scaled down to         *)
(* MantissaBits significant bits so that the rounding shows on small       *)
(* numbers.                                                                *)

MantissaBits == 3

RECURSIVE BitLen(_)
BitLen(n) == IF n = 0 THEN 0 ELSE 1 + BitLen(n \div 2)

\* distance between neighbouring values of the format at the magnitude of x
Ulp(x) == Pow2(Max(0, BitLen(Abs(x)) - MantissaBits))

\* the value of the format nearest to x, ties to even
FlRound(x) ==
  IF x >= 0 THEN RoundDiv(x, Ulp(x)) * Ulp(x)
  ELSE 0 - RoundDiv(0 - x, Ulp(x)) * Ulp(x)

Encoder_opposite_inplace_f64_no_negation(self) ==
  LET old_max == FlRound(FlRound(self.o + self.delta) - Encoder_get_granularity(self))
  IN  [self EXCEPT !.o = old_max]
Encoder_opposite_inplace_f64(self) ==
  LET old_max == FlRound(FlRound(self.o + self.delta) - Encoder_get_granularity(self))
      new_o == 0 - old_max
  IN  [self EXCEPT !.o = new_o]

\* the values of the format a host passes; every delta is a multiple of
\* 2^2, so that delta / 2^nb_bit_precision is exact
FloatRange == Pow2(MantissaBits + 1)
FloatReals == {x \in (0 - FloatRange)..FloatRange : FlRound(x) = x}
FloatDeltas == {x \in 1..FloatRange : FlRound(x) = x /\ x % 4 = 0}

CallSetOFloat == \E v \in FloatReals : SetterCall("set_o", v, Encoder_set_o(enc, v))

CallSetDeltaFloat == \E v \in FloatDeltas : SetterCall("set_delta", v, Encoder_set_delta(enc, v))

\* the outcome remembers in src the Encoder before the previous call when
\* that call was opposite_inplace too (flag)
CallEncoderOppositeInplaceF64 ==
  /\ pc = "idle"
  /\ Abs(enc.o) <= 2 * FloatRange
  /\ enc' = Encoder_opposite_inplace_f64(enc)
  /\ res' = [Outcome("Encoder.opposite_inplace", enc, NoArgs, Ok(0),
                     Encoder_opposite_inplace_f64(enc), 0, NoPlaintext)
               EXCEPT !.flag = (res.op = "Encoder.opposite_inplace"),
                      !.src = IF res.op = "Encoder.opposite_inplace" THEN res.self ELSE enc]
  /\ UNCHANGED <<vec, got, pt, ct, pc, depth, frame>>

NextEncoderF64 ==
  \/ CallEncoderZero
  \/ CallSetOFloat
  \/ CallSetDeltaFloat
  \/ CallSetNbBitPrecision
  \/ CallEncoderOppositeInplaceF64

SpecEncoderF64 == Init /\ [][NextEncoderF64]_vars

---------------------------------------------------------------------------
(* VectorLWE and VectorRLWE: the backend's operations (concrete::VectorLWE, *)
(* concrete::VectorRLWE)                                                   *)

IsPowerOfTwo(n) == \E k \in 0..n : Pow2(k) = n

\* slot i of a VectorLWE as a single ciphertext, and back
Slot(v, i) ==
  [mask |-> v.ciphertexts[i].mask, body |-> v.ciphertexts[i].body,
   variance |-> v.variances[i], dimension |-> v.dimension, encoder |-> v.encoders[i]]
NbSlots(v) == Min(Len(v.ciphertexts), Min(Len(v.variances), Len(v.encoders)))
FromSlots(v, slots) ==
  [v EXCEPT !.ciphertexts = [i \in 1..Len(slots) |-> [mask |-> slots[i].mask,
                                                        body |-> slots[i].body]],
            !.variances = [i \in 1..Len(slots) |-> slots[i].variance],
            !.encoders = [i \in 1..Len(slots) |-> slots[i].encoder]]

\* a vector operation built slot by slot from the results rs of the
\* single-ciphertext operation: the first failure is the vector's failure
PerSlot(v, rs) ==
  IF \E i \in 1..Len(rs) : rs[i].status = "Err"
  THEN Err(rs[CHOOSE i \in 1..Len(rs) :
                /\ rs[i].status = "Err"
                /\ \A j \in 1..(i - 1) : rs[j].status = "Ok"].err, NoVector)
  ELSE Ok(FromSlots(v, [i \in 1..Len(rs) |-> rs[i].val]))

concrete_VectorLWE_zero(dimension, nb_ciphertexts) ==
  IF nb_ciphertexts = 0 THEN Err("ZeroCiphertextsInStructureError", NoVector)
  ELSE Ok([kind |-> "VectorLWE", dimension |-> dimension, nb_ciphertexts |-> nb_ciphertexts,
           ciphertexts |-> [i \in 1..nb_ciphertexts |-> [mask |-> 0, body |-> 0]],
           variances |-> [i \in 1..nb_ciphertexts |-> 0],
           encoders |-> [i \in 1..nb_ciphertexts |-> Encoder_zero]])

concrete_VectorLWE_encode_encrypt(sk, messages, encoder, a, n) ==
  IF Len(messages) = 0 THEN Err("ZeroCiphertextsInStructureError", NoVector)
  ELSE PerSlot([kind |-> "VectorLWE", dimension |-> sk.dimension,
                nb_ciphertexts |-> Len(messages), ciphertexts |-> << >>,
                variances |-> << >>, encoders |-> << >>],
               [i \in 1..Len(messages) |->
                  concrete_LWE_encode_encrypt(sk, messages[i], encoder, a, n)])

concrete_VectorLWE_add_with_padding(self, other) ==
  PerSlot(self, [i \in 1..Min(NbSlots(self), NbSlots(other)) |->
                   concrete_LWE_add_with_padding_inplace(Slot(self, i), Slot(other, i))])

concrete_VectorLWE_add_constant_dynamic_encoder(self, messages) ==
  PerSlot(self, [i \in 1..Min(NbSlots(self), Len(messages)) |->
                   concrete_LWE_add_constant_dynamic_encoder(Slot(self, i), messages[i])])

concrete_VectorLWE_mul_constant_with_padding(self, constants, max_constant, nb_bit_padding) ==
  PerSlot(self, [i \in 1..Min(NbSlots(self), Len(constants)) |->
                   concrete_LWE_mul_constant_with_padding(Slot(self, i), constants[i],
                                                          max_constant, nb_bit_padding)])

RLWESecretKey_new_raw(polynomial_size, dimension) ==
  [polynomial_size |-> polynomial_size, dimension |-> dimension]

\* nb_ciphertexts polynomials of polynomial_size coefficient slots each, one
\* variance and one Encoder per slot
concrete_VectorRLWE_zero(polynomial_size, dimension, nb_ciphertexts) ==
  IF nb_ciphertexts = 0 THEN Err("ZeroCiphertextsInStructureError", NoVector)
  ELSE IF ~IsPowerOfTwo(polynomial_size) THEN Err("NotPowerOfTwoError", NoVector)
  ELSE Ok([kind |-> "VectorRLWE", polynomial_size |-> polynomial_size,
           dimension |-> dimension, nb_ciphertexts |-> nb_ciphertexts,
           ciphertexts |-> [i \in 1..(nb_ciphertexts * polynomial_size) |-> 0],
           variances |-> [i \in 1..(nb_ciphertexts * polynomial_size) |-> 0],
           encoders |-> [i \in 1..(nb_ciphertexts * polynomial_size) |-> Encoder_zero]])

\* unpacked encryption: message k is the constant coefficient of ciphertext
\* k; the other coefficient slots keep the zero Encoder
concrete_VectorRLWE_encode_encrypt(sk, messages, encoder) ==
  IF Len(messages) = 0 THEN Err("ZeroCiphertextsInStructureError", NoVector)
  ELSE IF \E k \in 1..Len(messages) : concrete_encode_single(encoder, messages[k]).status # "Ok"
  THEN Err("MessageOutsideIntervalError", NoVector)
  ELSE LET N == sk.polynomial_size
           first(i) == (i - 1) % N = 0
           k(i) == ((i - 1) \div N) + 1
       IN  Ok([kind |-> "VectorRLWE", polynomial_size |-> N, dimension |-> sk.dimension,
               nb_ciphertexts |-> Len(messages),
               ciphertexts |-> [i \in 1..(Len(messages) * N) |->
                                  IF first(i) THEN concrete_encode_core(encoder, messages[k(i)])
                                  ELSE 0],
               variances |-> [i \in 1..(Len(messages) * N) |-> IF first(i) THEN 1 ELSE 0],
               encoders |-> [i \in 1..(Len(messages) * N) |->
                               IF first(i) THEN encoder ELSE Encoder_zero]])

\* the coefficient slots that carry a valid Encoder, and the rank of slot i
\* among them
ValidSlots(self) == {i \in 1..Len(self.encoders) : concrete_is_valid(self.encoders[i])}
Rank(self, i) == Cardinality({j \in ValidSlots(self) : j <= i})

concrete_VectorRLWE_nb_valid(self) == Cardinality(ValidSlots(self))

\* message k goes to the k-th slot with a valid Encoder
concrete_VectorRLWE_add_constant_static_encoder(self, messages) ==
  IF Len(messages) > concrete_VectorRLWE_nb_valid(self)
  THEN Err("NotEnoughValidEncoderError", self)
  ELSE Ok([self EXCEPT !.ciphertexts =
             [i \in 1..Len(self.ciphertexts) |->
                IF i \in ValidSlots(self) /\ Rank(self, i) <= Len(messages)
                THEN (self.ciphertexts[i]
                        + ConstantShift(self.encoders[i], messages[Rank(self, i)])) % TorusModulus
                ELSE self.ciphertexts[i]]])

---------------------------------------------------------------------------
(* VectorLWE (src/src/vector_lwe.rs) and VectorRLWE (src/src/vector_rlwe.rs) *)

VectorLWE_set_variances(self, v) == [self EXCEPT !.variances = v]

VectorLWE_set_nb_ciphertexts(self, v) == [self EXCEPT !.nb_ciphertexts = v]

\* every Encoder of the vector is cloned into a new object
VectorLWE_get_encoders(self) == [i \in 1..Len(self.encoders) |-> self.encoders[i]]

VectorLWE_zero(dimension, nb_ciphertexts) ==
  translate_error(concrete_VectorLWE_zero(dimension, nb_ciphertexts))

VectorLWE_encode_encrypt(sk, messages, encoder, a, n) ==
  translate_error(concrete_VectorLWE_encode_encrypt(sk, messages, encoder, a, n))

VectorLWE_add_constant_dynamic_encoder(self, messages) ==
  translate_error(concrete_VectorLWE_add_constant_dynamic_encoder(self, messages))

VectorLWE_add_with_padding(self, other) ==
  translate_error(concrete_VectorLWE_add_with_padding(self, other))

VectorLWE_mul_constant_with_padding(self, constants, max_constant, nb_bit_padding) ==
  translate_error(concrete_VectorLWE_mul_constant_with_padding(self, constants, max_constant,
                                                               nb_bit_padding))

VectorRLWE_set_polynomial_size(self, v) == [self EXCEPT !.polynomial_size = v]

VectorRLWE_set_nb_ciphertexts(self, v) == [self EXCEPT !.nb_ciphertexts = v]

VectorRLWE_zero(polynomial_size, dimension, nb_ciphertexts) ==
  translate_error(concrete_VectorRLWE_zero(polynomial_size, dimension, nb_ciphertexts))

VectorRLWE_encode_encrypt(sk, messages, encoder) ==
  translate_error(concrete_VectorRLWE_encode_encrypt(sk, messages, encoder))

VectorRLWE_add_constant_static_encoder(self, messages) ==
  translate_error(concrete_VectorRLWE_add_constant_static_encoder(self, messages))

VectorRLWE_add_constant_static_encoder_inplace_unwrap(self, messages) ==
  unwrap(concrete_VectorRLWE_add_constant_static_encoder(self, messages))
VectorRLWE_add_constant_static_encoder_inplace(self, messages) ==
  translate_error(concrete_VectorRLWE_add_constant_static_encoder(self, messages))

VectorRLWE_nb_valid(self) == concrete_VectorRLWE_nb_valid(self)

\* LWE::add_with_padding as one step: a body that calls the method itself
\* ends when the stack is exhausted
LWE_add_with_padding(self, other) ==
  IF LWE_add_with_padding_callee = "add_with_padding"
  THEN [status |-> "Abort", err |-> "none", exc |-> "stack overflow", val |-> NoLWE]
  ELSE translate_error(concrete_LWE_add_with_padding_inplace(self, other))

---------------------------------------------------------------------------
(* State machine of a host session working on one vector ciphertext        *)

VectorEncoders == {Encoder_new(-4, 4, 2, 1).val, Encoder_new(-4, 4, 1, 2).val}
VectorMessages == SeqsUpTo({-2, 2}, MaxSlots)
VectorConstants == SeqsUpTo({1, 100}, MaxSlots)
VectorVariances == SeqsUpTo({0}, MaxSlots)
PolynomialSizes == {2, 3}
\* the lists <<>>, <<2>>, <<2, 4>>, <<2, 4, 2>>, ... of constants to add
ShiftLists == {[i \in 1..n |-> 2 + 2 * ((i - 1) % 2)] : n \in 0..(MaxSlots + 1)}
OtherVectors ==
  {VectorLWE_encode_encrypt(LWESecretKey_new_raw(630, 1), ms, Encoder_new(-4, 4, 2, 1).val,
                            9, 0).val : ms \in {<<-2>>, <<-2, 2>>}}

IsVectorLWE == vec.kind = "VectorLWE"
IsVectorRLWE == vec.kind = "VectorRLWE"

\* record of a completed call on a vector: the receiver before the call, the
\* other operand, the list argument, the returned vector
VectorOutcome(op, self, other, args, list, r, v) ==
  [Outcome(op, Encoder_zero, args, r, Encoder_zero, 0, NoPlaintext)
     EXCEPT !.vself = self, !.vother = other, !.list = list, !.vres = v]

\* a constructor or in-place method: on success the host's vector is r.val
VectorStore(op, self, args, list, r) ==
  /\ pc = "idle"
  /\ vec' = (IF r.status = "Ok" THEN r.val ELSE vec)
  /\ res' = VectorOutcome(op, self, NoVector, args, list, r,
                          IF r.status = "Ok" THEN r.val ELSE vec)
  /\ UNCHANGED <<enc, ct, pc, depth, frame, pt, got>>

\* a method that returns a value and leaves self as it is
VectorValue(op, other, args, list, r) ==
  /\ pc = "idle"
  /\ res' = VectorOutcome(op, vec, other, args, list, r, r.val)
  /\ UNCHANGED <<enc, ct, pc, depth, frame, pt, vec, got>>

CallVectorLWEZero ==
  \E nb \in SlotCounts :
    VectorStore("VectorLWE.zero", NoVector, [NoArgs EXCEPT !.a = 630, !.b = nb], << >>,
                VectorLWE_zero(630, nb))

CallVectorLWEEncodeEncrypt ==
  \E ms \in VectorMessages, e \in VectorEncoders :
    VectorStore("VectorLWE.encode_encrypt", NoVector, NoArgs, ms,
                VectorLWE_encode_encrypt(LWESecretKey_new_raw(630, 1), ms, e, 5, 0))

CallVectorLWESetVariances ==
  /\ IsVectorLWE
  /\ \E v \in VectorVariances :
       VectorStore("VectorLWE.set_variances", vec, NoArgs, v,
                   Ok(VectorLWE_set_variances(vec, v)))

CallVectorLWESetNbCiphertexts ==
  /\ IsVectorLWE
  /\ \E v \in SlotCounts :
       VectorStore("VectorLWE.set_nb_ciphertexts", vec, [NoArgs EXCEPT !.a = v], << >>,
                   Ok(VectorLWE_set_nb_ciphertexts(vec, v)))

CallVectorLWEAddWithPadding ==
  /\ IsVectorLWE
  /\ \E other \in OtherVectors :
       /\ other.nb_ciphertexts = vec.nb_ciphertexts
       /\ VectorValue("VectorLWE.add_with_padding", other, NoArgs, << >>,
                      VectorLWE_add_with_padding(vec, other))

CallVectorLWEAddConstantDynamicEncoder ==
  /\ IsVectorLWE
  /\ \E ms \in VectorMessages :
       /\ Len(ms) = vec.nb_ciphertexts
       /\ VectorValue("VectorLWE.add_constant_dynamic_encoder", NoVector, NoArgs, ms,
                      VectorLWE_add_constant_dynamic_encoder(vec, ms))

CallVectorLWEMulConstantWithPadding ==
  /\ IsVectorLWE
  /\ \E cs \in VectorConstants, mc \in MaxConstants, nb \in MulPaddings :
       /\ Len(cs) = vec.nb_ciphertexts
       /\ VectorValue("VectorLWE.mul_constant_with_padding", NoVector,
                      [NoArgs EXCEPT !.b = mc, !.c = nb], cs,
                      VectorLWE_mul_constant_with_padding(vec, cs, mc, nb))

CallVectorRLWEZero ==
  \E N \in PolynomialSizes, nb \in SlotCounts :
    VectorStore("VectorRLWE.zero", NoVector, [NoArgs EXCEPT !.a = N, !.b = nb], << >>,
                VectorRLWE_zero(N, 630, nb))

CallVectorRLWEEncodeEncrypt ==
  \E ms \in VectorMessages, e \in VectorEncoders :
    VectorStore("VectorRLWE.encode_encrypt", NoVector, NoArgs, ms,
                VectorRLWE_encode_encrypt(RLWESecretKey_new_raw(2, 630), ms, e))

CallVectorRLWESetPolynomialSize ==
  /\ IsVectorRLWE
  /\ \E v \in PolynomialSizes :
       VectorStore("VectorRLWE.set_polynomial_size", vec, [NoArgs EXCEPT !.a = v], << >>,
                   Ok(VectorRLWE_set_polynomial_size(vec, v)))

CallVectorRLWESetNbCiphertexts ==
  /\ IsVectorRLWE
  /\ \E v \in SlotCounts :
       VectorStore("VectorRLWE.set_nb_ciphertexts", vec, [NoArgs EXCEPT !.a = v], << >>,
                   Ok(VectorRLWE_set_nb_ciphertexts(vec, v)))

CallVectorRLWEAddConstantStaticEncoder ==
  /\ IsVectorRLWE
  /\ \E ms \in ShiftLists :
       VectorValue("VectorRLWE.add_constant_static_encoder", NoVector, NoArgs, ms,
                   VectorRLWE_add_constant_static_encoder(vec, ms))

CallVectorRLWEAddConstantStaticEncoderInplace ==
  /\ IsVectorRLWE
  /\ \E ms \in ShiftLists :
       VectorStore("VectorRLWE.add_constant_static_encoder_inplace", vec, NoArgs, ms,
                   VectorRLWE_add_constant_static_encoder_inplace(vec, ms))

CallVectorRLWENbValid ==
  /\ IsVectorRLWE
  /\ pc = "idle"
  /\ res' = [VectorOutcome("VectorRLWE.nb_valid", vec, NoVector, NoArgs, << >>, Ok(0), vec)
               EXCEPT !.num = VectorRLWE_nb_valid(vec)]
  /\ UNCHANGED <<enc, ct, pc, depth, frame, pt, vec, got>>

NextVector ==
  \/ CallVectorLWEZero
  \/ CallVectorLWEEncodeEncrypt
  \/ CallVectorLWESetVariances
  \/ CallVectorLWESetNbCiphertexts
  \/ CallVectorLWEAddWithPadding
  \/ CallVectorLWEAddConstantDynamicEncoder
  \/ CallVectorLWEMulConstantWithPadding
  \/ CallVectorRLWEZero
  \/ CallVectorRLWEEncodeEncrypt
  \/ CallVectorRLWESetPolynomialSize
  \/ CallVectorRLWESetNbCiphertexts
  \/ CallVectorRLWEAddConstantStaticEncoder
  \/ CallVectorRLWEAddConstantStaticEncoderInplace
  \/ CallVectorRLWENbValid

SpecVector == Init /\ [][NextVector]_vars

---------------------------------------------------------------------------
(* Encoders handed to and obtained from ciphertexts and Plaintexts          *)

\* what the getter hands to the host: LWE::get_encoder is declared
\* `-> &crate::Encoder` and its body is the stored field, without clone();
\* VectorLWE::get_encoders builds crate::Encoder{data: x.clone()}
LWE_get_encoder_returns == "reference"
VectorLWE_get_encoders_returns == "clone"

LWE_get_encoder(self) == self.encoder

AliasEncoders == {Encoder_new(-4, 4, 2, 1).val}
AliasOffsets == {-6, 3}

\* the host makes its Encoder object
CallMakeEncoder ==
  /\ pc = "idle"
  /\ \E e \in AliasEncoders :
       /\ enc' = e
       /\ res' = Outcome("new", enc, NoArgs, Ok(0), e, 0, NoPlaintext)
  /\ UNCHANGED <<vec, got, pt, ct, pc, depth, frame>>

\* LWE::encode_encrypt(sk, message, &encoder) with the host's Encoder; an
\* Encoder obtained from the replaced ciphertext is dropped
CallEncodeEncryptWith ==
  /\ pc = "idle"
  /\ \E m \in {2} :
       LET r == LWE_encode_encrypt(LWESecretKey_new_raw(630, 1), m, enc, 5, 0)
       IN  /\ ct' = (IF r.status = "Ok" THEN r.val ELSE ct)
           /\ res' = [LWEOutcome("encode_encrypt", NoLWE, NoLWE,
                                 [NoArgs EXCEPT !.a = m, !.b = 630], r, r.val)
                        EXCEPT !.src = enc]
  /\ got' = NoHandle
  /\ UNCHANGED <<vec, pt, enc, pc, depth, frame>>

\* ct.encoder = e with the host's Encoder: the parameter is taken by value
CallSetEncoderWith ==
  /\ pc = "idle"
  /\ HasLWE
  /\ ct' = LWE_set_encoder(ct, enc)
  /\ res' = [LWEOutcome("set_encoder", ct, NoLWE, NoArgs, Ok(0), LWE_set_encoder(ct, enc))
               EXCEPT !.src = enc]
  /\ got' = NoHandle
  /\ UNCHANGED <<vec, pt, enc, pc, depth, frame>>

CallPlaintextSetNthEncoderWith ==
  /\ pc = "idle"
  /\ \E nth \in 0..(MaxSlots - 1) :
       LET r == Plaintext_set_nth_encoder(pt, nth, enc)
       IN  /\ pt' = (IF r.status = "Ok" THEN r.val ELSE pt)
           /\ res' = [Outcome("Plaintext.set_nth_encoder", enc, [NoArgs EXCEPT !.a = nth], r,
                              enc, 0, IF r.status = "Ok" THEN r.val ELSE pt)
                        EXCEPT !.src = enc]
  /\ UNCHANGED <<vec, got, enc, ct, pc, depth, frame>>

CallVectorLWEEncodeEncryptWith ==
  /\ pc = "idle"
  /\ \E ms \in {<<-2, 2>>} :
       LET r == VectorLWE_encode_encrypt(LWESecretKey_new_raw(630, 1), ms, enc, 5, 0)
       IN  /\ vec' = (IF r.status = "Ok" THEN r.val ELSE vec)
           /\ res' = [VectorOutcome("VectorLWE.encode_encrypt", NoVector, NoVector, NoArgs, ms,
                                    r, IF r.status = "Ok" THEN r.val ELSE vec)
                        EXCEPT !.src = enc]
  /\ UNCHANGED <<got, pt, enc, ct, pc, depth, frame>>

\* e = ct.encoder
CallLWEGetEncoder ==
  /\ pc = "idle"
  /\ HasLWE
  /\ got' = [kind |-> LWE_get_encoder_returns, data |-> LWE_get_encoder(ct)]
  /\ res' = LWEOutcome("get_encoder", ct, NoLWE, NoArgs, Ok(0), ct)
  /\ UNCHANGED <<vec, pt, enc, ct, pc, depth, frame>>

\* e = v.encoders[i]
CallVectorLWEGetEncoders ==
  /\ pc = "idle"
  /\ IsVectorLWE
  /\ \E i \in 1..Len(vec.encoders) :
       /\ got' = [kind |-> VectorLWE_get_encoders_returns,
                  data |-> VectorLWE_get_encoders(vec)[i]]
       /\ res' = VectorOutcome("VectorLWE.get_encoders", vec, NoVector,
                               [NoArgs EXCEPT !.a = i], << >>, Ok(0), vec)
  /\ UNCHANGED <<vec, pt, enc, ct, pc, depth, frame>>

\* e.o = v on the Encoder obtained from a getter; a reference is the stored
\* Encoder itself
CallSetOObtained ==
  /\ pc = "idle"
  /\ got.kind # "none"
  /\ \E v \in AliasOffsets :
       /\ got' = [got EXCEPT !.data = Encoder_set_o(got.data, v)]
       /\ ct' = (IF got.kind = "reference"
                 THEN [ct EXCEPT !.encoder = Encoder_set_o(got.data, v)]
                 ELSE ct)
       /\ res' = Outcome("obtained.set_o", got.data, [NoArgs EXCEPT !.a = v], Ok(0),
                         Encoder_set_o(got.data, v), 0, NoPlaintext)
  /\ UNCHANGED <<vec, pt, enc, pc, depth, frame>>

\* e.o = v on the host's own Encoder
CallSetOHost == \E v \in AliasOffsets : SetterCall("set_o", v, Encoder_set_o(enc, v))

NextAlias ==
  \/ CallMakeEncoder
  \/ CallSetOHost
  \/ CallEncodeEncryptWith
  \/ CallSetEncoderWith
  \/ CallPlaintextZero
  \/ CallPlaintextSetNthEncoderWith
  \/ CallVectorLWEEncodeEncryptWith
  \/ CallLWEGetEncoder
  \/ CallVectorLWEGetEncoders
  \/ CallSetOObtained
  \/ CallAddConstantStaticEncoder

SpecAlias == Init /\ [][NextAlias]_vars

---------------------------------------------------------------------------
(* Properties of the Encoder API, checked under SpecEncoder *)

\* the message interval [o, o + delta) of an encoder
InInterval(e, m) == e.o <= m /\ m < e.o + e.delta

\* the last call was decode_single on the encoding that encode_single gives for m
DecodedEncodingOf(m) ==
  /\ res.op = "decode_single"
  /\ Encoder_encode_single(res.self, m).status = "Ok"
  /\ Encoder_encode_single(res.self, m).val.plaintexts[1] = res.args.a

\* the decoded value is what the round flag promises for message m
RoundTripOk(m) ==
  LET e == res.self
      g == Encoder_get_granularity(e)
  IN  /\ res.status = "Ok"
      /\ Abs(res.num - m) < g
      /\ (~e.round => res.num = e.o + FloorDiv(m - e.o, g) * g)
      /\ (e.round => 2 * Abs(res.num - m) <= g)

\* C1 as stated: for every valid Encoder and every message in [min, max),
\* decode_single(encode_single(message).plaintexts[0]) is within one
\* granularity of message, the floor grid value for round=false and the
\* nearest grid point for round=true.
C1_RoundTripOriginal ==
  \A m \in Messages :
    (Encoder_is_valid(res.self) /\ InInterval(res.self, m) /\ DecodedEncodingOf(m))
      => RoundTripOk(m)

\* C1 amended: the same, but for round=true only for messages below
\* o + delta - granularity/2; a message in the top half step rounds to index
\* 2^precision, which is outside the grid.
C1_RoundTrip ==
  \A m \in Messages :
    (/\ Encoder_is_valid(res.self) /\ InInterval(res.self, m) /\ DecodedEncodingOf(m)
     /\ (res.self.round =>
           2 * m < 2 * (res.self.o + res.self.delta) - Encoder_get_granularity(res.self)))
      => RoundTripOk(m)

\* C1 witness: an off-grid message of a rounding encoder with padding has
\* been encoded and decoded
C1_Witness ==
  \E m \in Messages :
    /\ Encoder_is_valid(res.self) /\ InInterval(res.self, m) /\ DecodedEncodingOf(m)
    /\ res.self.round /\ res.self.nb_bit_padding > 0
    /\ 2 * m < 2 * (res.self.o + res.self.delta) - Encoder_get_granularity(res.self)
    /\ res.num # m

\* C8: Encoder::new fails with InvalidIntervalError when max <= min and with
\* InvalidPrecisionError when nb_bit_precision = 0; otherwise it returns an
\* Encoder with o = min, delta = max - min, the given precision and padding
\* and round = false; new_rounding_context differs only in round = true.
C8_New ==
  (res.op \in {"new", "new_rounding_context"}) =>
    LET min == res.args.a
        max == res.args.b
        p   == res.args.c
        pad == res.args.d
    IN  /\ (res.status = "Err") <=> (max <= min \/ p = 0)
        /\ (res.status = "Err" /\ ~(p = 0)) => res.err = "InvalidIntervalError"
        /\ (res.status = "Err" /\ ~(max <= min)) => res.err = "InvalidPrecisionError"
        /\ res.status = "Err" => res.err \in {"InvalidIntervalError", "InvalidPrecisionError"}
        /\ res.status = "Err" => enc = res.self
        /\ res.status # "Err" =>
             /\ res.status = "Ok"
             /\ res.enc = [o |-> min, delta |-> max - min, nb_bit_precision |-> p,
                           nb_bit_padding |-> pad,
                           round |-> (res.op = "new_rounding_context")]
             /\ enc = res.enc

\* C8 witness: a successful construction over [-4, 4) with padding
C8_Witness ==
  /\ res.op = "new" /\ res.status = "Ok"
  /\ res.args.a = -4 /\ res.args.b = 4 /\ res.args.d = 1
  /\ enc.delta = 8

\* C9: encode_single fails with MessageOutsideIntervalError for every message
\* outside [o, o + delta), message = o + delta included, and succeeds with a
\* one-slot Plaintext for every message inside it.
C9_EncodeSingle ==
  (res.op = "encode_single") =>
    IF InInterval(res.self, res.args.a)
    THEN /\ res.status = "Ok"
         /\ res.pt.nb_plaintexts = 1
         /\ Len(res.pt.plaintexts) = 1
         /\ Len(res.pt.encoders) = 1
         /\ res.pt.plaintexts[1] \in Torus
    ELSE /\ res.status = "Err"
         /\ res.err = "MessageOutsideIntervalError"

\* C9 witness: the message o + delta was rejected by a valid encoder
C9_Witness ==
  /\ res.op = "encode_single" /\ Encoder_is_valid(res.self)
  /\ res.args.a = res.self.o + res.self.delta
  /\ res.status = "Err"

\* the Torus value of grid point idx of encoder e perturbed by noise n
Noisy(e, idx, n) == (idx * Pow2(Shift(e)) + n) % TorusModulus

\* noise values smaller in magnitude than half a grid step of encoder e
SmallNoise(e) == {n \in (0 - Pow2(Shift(e))) .. Pow2(Shift(e)) : 2 * Abs(n) < Pow2(Shift(e))}

GridPoints(e) == 0 .. (Pow2(e.nb_bit_precision) - 1)

\* C10 as stated: decode_single succeeds for every Torus input on a valid
\* Encoder, and an encoded grid point perturbed by noise smaller than half a
\* grid step decodes to that same grid point.
C10_DecodeOriginal ==
  (res.op = "decode_single" /\ Encoder_is_valid(res.self)) =>
    /\ res.status = "Ok"
    /\ \A idx \in GridPoints(res.self) : \A n \in SmallNoise(res.self) :
         res.args.a = Noisy(res.self, idx, n)
           => res.num = res.self.o + idx * Encoder_get_granularity(res.self)

\* C10 amended: decode_single succeeds for every Torus input on a valid
\* Encoder, and on an Encoder in the rounding context (round = true) an
\* encoded grid point perturbed by noise smaller than half a grid step
\* decodes to that same grid point.
C10_Decode ==
  (res.op = "decode_single" /\ Encoder_is_valid(res.self)) =>
    /\ res.status = "Ok"
    /\ res.self.round =>
         \A idx \in GridPoints(res.self) : \A n \in SmallNoise(res.self) :
           res.args.a = Noisy(res.self, idx, n)
             => res.num = res.self.o + idx * Encoder_get_granularity(res.self)

\* C10 witness: a rounding encoder with padding decoded a grid point that
\* carries negative noise
C10_Witness ==
  /\ res.op = "decode_single" /\ Encoder_is_valid(res.self)
  /\ res.self.round /\ res.self.nb_bit_padding > 0
  /\ \E idx \in GridPoints(res.self) : \E n \in SmallNoise(res.self) :
       /\ n < 0
       /\ res.args.a = Noisy(res.self, idx, n)
       /\ res.num = res.self.o + idx * Encoder_get_granularity(res.self)

---------------------------------------------------------------------------
(* Properties of the LWE API, checked under SpecLWE *)

\* the value a ciphertext decodes to at the nearest grid point of its Encoder
Decoded(c) == LWE_decrypt_decode_round(c, LWESecretKey_new_raw(c.dimension, 1)).val

\* c is what encode_encrypt returned for message m
FreshOf(c, m) ==
  \E d \in Dimensions, e \in LWEEncoders, a \in Masks, n \in Noises :
    /\ LWE_encode_encrypt(LWESecretKey_new_raw(d, 1), m, e, a, n).status = "Ok"
    /\ LWE_encode_encrypt(LWESecretKey_new_raw(d, 1), m, e, a, n).val = c

OnGrid(e, m) == InInterval(e, m) /\ (m - e.o) % concrete_get_granularity(e) = 0

Returned == pc = "idle" \/ pc = "aborted"

\* C2: add_with_padding on two ciphertexts with equal dimension, delta and
\* padding (padding >= 1) succeeds, its result has precision min(p1, p2) and one
\* bit of padding less, and it decodes to m1 + m2 up to the result's granularity.
C2_AddWithPadding ==
  (res.op = "add_with_padding" /\ Returned /\ AdditionError(res.lself, res.other) = "ok")
    => /\ res.status = "Ok"
       /\ res.lwe.encoder.nb_bit_precision =
            Min(res.lself.encoder.nb_bit_precision, res.other.encoder.nb_bit_precision)
       /\ res.lwe.encoder.nb_bit_padding = res.lself.encoder.nb_bit_padding - 1
       /\ Abs(Decoded(res.lwe) - (Decoded(res.lself) + Decoded(res.other)))
            <= concrete_get_granularity(res.lwe.encoder)

\* C3: add_with_padding_exact, in its value-returning and its in-place form, on
\* two ciphertexts with equal dimension, delta and padding (padding >= 1)
\* yields precision max(p1, p2) + 1 and decodes to m1 + m2.
C3_AddWithPaddingExact ==
  (/\ res.op \in {"add_with_padding_exact", "add_with_padding_exact_inplace"}
   /\ Returned
   /\ AdditionError(res.lself, res.other) = "ok")
    => /\ res.status = "Ok"
       /\ res.lwe.encoder.nb_bit_precision =
            Max(res.lself.encoder.nb_bit_precision, res.other.encoder.nb_bit_precision) + 1
       /\ Decoded(res.lwe) = Decoded(res.lself) + Decoded(res.other)

AdditionViolations(self, other) ==
  {k \in {"DimensionError", "DeltaError", "PaddingError", "NotEnoughPaddingError"} :
     \/ (k = "DimensionError" /\ self.dimension # other.dimension)
     \/ (k = "DeltaError" /\ self.encoder.delta # other.encoder.delta)
     \/ (k = "PaddingError" /\ self.encoder.nb_bit_padding # other.encoder.nb_bit_padding)
     \/ (k = "NotEnoughPaddingError"
           /\ (self.encoder.nb_bit_padding = 0 \/ other.encoder.nb_bit_padding = 0))}

TwoCiphertextAdditions ==
  {"add_with_padding", "add_with_padding_inplace",
   "add_with_padding_exact", "add_with_padding_exact_inplace"}

\* C5: a two-ciphertext addition whose operands differ in dimension, delta or
\* padding, or have no padding bit, fails with the error of a precondition that
\* does not hold; add_with_padding of a dimension-630 and a dimension-1024
\* ciphertext fails with DimensionError.
C5_AdditionErrors ==
  (res.op \in TwoCiphertextAdditions /\ Returned)
    => /\ AdditionViolations(res.lself, res.other) # {}
            => (res.status = "Err" /\ res.err \in AdditionViolations(res.lself, res.other))
       /\ (res.op = "add_with_padding" /\ res.lself.dimension # res.other.dimension)
            => (res.status = "Err" /\ res.err = "DimensionError")

\* C6: an addition or multiplication that requires padding, applied to a
\* ciphertext with nb_bit_padding = 0 whose other preconditions hold, fails
\* with NotEnoughPaddingError; mul_from_bootstrap fails with it whenever an
\* operand has fewer than 2 bits of padding.
C6_PaddingExhaustion ==
  /\ (/\ res.op \in TwoCiphertextAdditions
      /\ Returned
      /\ res.lself.encoder.nb_bit_padding = 0
      /\ AdditionViolations(res.lself, res.other) = {"NotEnoughPaddingError"})
       => (res.status = "Err" /\ res.err = "NotEnoughPaddingError")
  /\ (/\ res.op = "mul_constant_with_padding"
      /\ res.lself.encoder.nb_bit_padding = 0
      /\ ZeroInInterval(res.lself.encoder)
      /\ Abs(res.args.a) <= res.args.b)
       => (res.status = "Err" /\ res.err = "NotEnoughPaddingError")
  /\ (/\ res.op = "mul_from_bootstrap"
      /\ Returned
      /\ (res.lself.encoder.nb_bit_padding < 2 \/ res.other.encoder.nb_bit_padding < 2))
       => (res.status = "Err" /\ res.err = "NotEnoughPaddingError")

\* the errors of the preconditions of mul_constant_with_padding that do not hold
MulConstantViolations(self, constant, max_constant, nb_bit_padding) ==
  {k \in {"ZeroInIntervalError", "ConstantMaximumError", "NotEnoughPaddingError"} :
     \/ (k = "ZeroInIntervalError" /\ ~ZeroInInterval(self.encoder))
     \/ (k = "ConstantMaximumError" /\ Abs(constant) > max_constant)
     \/ (k = "NotEnoughPaddingError" /\ self.encoder.nb_bit_padding < nb_bit_padding)}

\* C7: mul_constant_with_padding(constant, max_constant, nb_bit_padding) fails
\* with ZeroInIntervalError when 0 is outside the Encoder's interval, with
\* ConstantMaximumError when |constant| > max_constant and with
\* NotEnoughPaddingError when fewer than nb_bit_padding padding bits remain
\* (one of them when several apply); otherwise it succeeds with precision
\* min(input precision, nb_bit_padding) and padding reduced by nb_bit_padding.
C7_MulConstantWithPadding ==
  res.op = "mul_constant_with_padding" =>
    LET v == MulConstantViolations(res.lself, res.args.a, res.args.b, res.args.c)
    IN  /\ v # {} => (res.status = "Err" /\ res.err \in v /\ res.exc = "PyValueError")
        /\ v = {} =>
             /\ res.status = "Ok"
             /\ res.lwe.encoder.nb_bit_precision =
                  Min(res.lself.encoder.nb_bit_precision, res.args.c)
             /\ res.lwe.encoder.nb_bit_padding =
                  res.lself.encoder.nb_bit_padding - res.args.c

C7_Witness ==
  /\ res.op = "mul_constant_with_padding"
  /\ res.status = "Ok"
  /\ res.args.c = 1
  /\ res.lself.encoder.nb_bit_precision = 2
  /\ res.lself.encoder.nb_bit_padding = 2
  /\ res.lwe.encoder.nb_bit_precision = 1
  /\ res.lwe.encoder.nb_bit_padding = 1

---------------------------------------------------------------------------
(* Properties of the Encoder object, checked under SpecEncoderState *)

\* C11: is_valid() is true exactly when nb_bit_precision # 0 and delta > 0;
\* Encoder::zero() has all fields zero and is not valid; an Encoder returned
\* successfully by new_centered is valid.
C11_IsValid ==
  /\ res.op = "is_valid"
       => (res.flag <=> (res.self.nb_bit_precision # 0 /\ res.self.delta > 0))
  /\ res.op = "zero"
       => /\ enc = [o |-> 0, delta |-> 0, nb_bit_precision |-> 0, nb_bit_padding |-> 0,
                    round |-> FALSE]
          /\ ~Encoder_is_valid(enc)
  /\ (res.op = "new_centered" /\ res.status = "Ok")
       => (enc = res.enc /\ Encoder_is_valid(enc))

\* C11 witness: is_valid answered false for an encoder with a nonzero
\* precision whose delta is not positive
C11_Witness ==
  /\ res.op = "is_valid"
  /\ ~res.flag
  /\ res.self.nb_bit_precision > 0
  /\ res.self.delta <= 0

C13_EncoderOpposite ==
  res.op = "Encoder.opposite_inplace" =>
    LET e == res.self
        old_max == e.o + e.delta - (e.delta \div Pow2(e.nb_bit_precision))
    IN  /\ res.status = "Ok"
        /\ enc.o = 0 - old_max
        /\ enc.delta = e.delta
        /\ enc.nb_bit_precision = e.nb_bit_precision
        /\ enc.nb_bit_padding = e.nb_bit_padding
        /\ enc.round = e.round

\* C13 witness: the rounding encoder of [-4, 4) with granularity 2 became the
\* encoder of [-2, 6)
C13_Witness ==
  /\ res.op = "Encoder.opposite_inplace"
  /\ res.self = [o |-> -4, delta |-> 8, nb_bit_precision |-> 2, nb_bit_padding |-> 1,
                 round |-> TRUE]
  /\ enc = [o |-> -2, delta |-> 8, nb_bit_precision |-> 2, nb_bit_padding |-> 1,
            round |-> TRUE]

\* C17: after Encoder::copy(src) the destination equals src in every field
\* (o, delta, nb_bit_precision, nb_bit_padding, round), whatever the
\* destination held before.
C17_CopyIsValueCopy ==
  res.op = "copy" => enc = res.src

---------------------------------------------------------------------------
(* Properties of the LWE object, checked under SpecLWEObject *)

\* C14: add_constant_dynamic_encoder(message), in its value-returning and its
\* in-place form, on a ciphertext with a valid Encoder changes only the
\* Encoder's o (new o = old o + message); on a ciphertext whose Encoder is
\* invalid it fails with InvalidEncoderError returned to the caller.
C14_AddConstantDynamic ==
  res.op \in {"add_constant_dynamic_encoder", "add_constant_dynamic_encoder_inplace"} =>
    IF Encoder_is_valid(res.lself.encoder)
    THEN /\ res.status = "Ok"
         /\ res.lwe = [res.lself EXCEPT !.encoder.o = res.lself.encoder.o + res.args.a]
         /\ (res.op = "add_constant_dynamic_encoder" => ct = res.lself)
         /\ (res.op = "add_constant_dynamic_encoder_inplace" => ct = res.lwe)
    ELSE /\ res.status = "Err"
         /\ res.err = "InvalidEncoderError"
         /\ res.exc = "PyValueError"
         /\ ct = res.lself

StaticEncoderOps ==
  {"add_constant_static_encoder", "add_constant_static_encoder_inplace",
   "mul_constant_static_encoder", "mul_constant_static_encoder_inplace"}

C18_NoAbort == res.status \in {"Ok", "Err"}

\* C19: along every sequence of public operations on a ciphertext
\* (constant additions, scalar multiplications, the variance and encoder
\* setters) the ciphertext's variance never decreases from one step to the
\* next.
C19_VarianceMonotone == [][res'.op # "zero" => ct'.variance >= ct.variance]_vars

---------------------------------------------------------------------------
(* Properties of the Plaintext object, checked under SpecPlaintext *)

\* C16: in every state reachable through zero, encode, encode_inplace,
\* set_encoders, set_encoders_from_one, set_nth_encoder and the plaintexts and
\* nb_plaintexts setters, the Plaintext has as many encoders as plaintexts,
\* and that number is nb_plaintexts.
C16_PlaintextInvariant ==
  /\ Len(pt.encoders) = pt.nb_plaintexts
  /\ Len(pt.plaintexts) = pt.nb_plaintexts

---------------------------------------------------------------------------
(* Properties of the in-place LWE operations, checked under SpecLWEInplace
   and, for termination, under SpecLWECalls *)

\* C21: a finished remove_padding_inplace(nb) with nb at most the Encoder's
\* nb_bit_padding has returned Ok, has reduced nb_bit_padding by exactly nb
\* and has left body, mask, variance, dimension and the Encoder's o, delta,
\* precision and round as they were.
C21_RemovePadding ==
  (res.op = "remove_padding_inplace" /\ pc # "remove_padding_inplace"
     /\ res.args.a <= res.lself.encoder.nb_bit_padding) =>
    /\ res.status = "Ok"
    /\ ct = [res.lself EXCEPT !.encoder.nb_bit_padding = @ - res.args.a]

\* C27: mul_constant_with_padding_inplace(constant, max_constant,
\* nb_bit_padding) leaves in self the ciphertext that
\* mul_constant_with_padding returns for the same arguments, and fails on
\* the same inputs with the same error, then leaving self unchanged.
C27_InplaceAgrees ==
  res.op = "mul_constant_with_padding_inplace" =>
    LET r == LWE_mul_constant_with_padding(res.lself, res.args.a, res.args.b, res.args.c)
    IN  /\ res.status = r.status
        /\ res.err = r.err
        /\ (r.status = "Ok" => ct = r.val)
        /\ (r.status = "Err" => ct = res.lself)

\* C28: every call of add_with_padding, add_with_padding_exact_inplace,
\* mul_from_bootstrap and remove_padding_inplace eventually returns to the
\* host with a success or an error value.
C28_Terminates ==
  (pc \in {"add_with_padding", "add_with_padding_exact_inplace", "mul_from_bootstrap",
           "remove_padding_inplace"}) ~> (pc = "idle")

\* two ciphertexts add_with_padding_inplace accepts but for the padding left
PaddingCompatible(self, other) ==
  /\ self.dimension = other.dimension
  /\ self.encoder.delta = other.encoder.delta
  /\ self.encoder.nb_bit_padding = other.encoder.nb_bit_padding

---------------------------------------------------------------------------
(* Properties of Encoder::opposite_inplace in floating point, checked under
   SpecEncoderF64 *)

\* C30 as stated: opposite_inplace always returns Ok, and two applications
\* in a row restore the Encoder they started from, o and every other field.
C30_InvolutionOriginal ==
  res.op = "Encoder.opposite_inplace" =>
    /\ res.status = "Ok"
    /\ (res.flag => enc = res.src)

\* C30: opposite_inplace always returns Ok, also on the zero Encoder; two
\* applications in a row restore delta, nb_bit_precision, nb_bit_padding and
\* round exactly and o up to the rounding of the four floating-point
\* operations involved (two units in the last place at the magnitude of
\* |o| + delta); o is restored exactly when none of them rounds.
C30_Involution ==
  res.op = "Encoder.opposite_inplace" =>
    /\ res.status = "Ok"
    /\ (res.flag =>
          LET e == res.src
              g == Encoder_get_granularity(e)
          IN  /\ [enc EXCEPT !.o = e.o] = e
              /\ Abs(enc.o - e.o) <= 2 * Ulp(Abs(e.o) + e.delta)
              /\ (/\ FlRound(e.o + e.delta) = e.o + e.delta
                  /\ FlRound(e.o + e.delta - g) = e.o + e.delta - g
                  /\ FlRound(g - e.o) = g - e.o) => enc.o = e.o)

\* C30 witness: two applications in a row on a valid Encoder whose o + delta
\* is not a value of the format (with 3 mantissa bits: [5, 9), where 5 + 4
\* rounds to 8); o comes back one unit in the last place away
C30_Witness ==
  /\ res.op = "Encoder.opposite_inplace"
  /\ res.flag
  /\ Encoder_is_valid(res.src)
  /\ FlRound(res.src.o + res.src.delta) # res.src.o + res.src.delta
  /\ enc.o # res.src.o
  /\ Abs(enc.o - res.src.o) = Ulp(res.src.o + res.src.delta)

---------------------------------------------------------------------------
(* Properties of the vector ciphertexts, checked under SpecVector *)

\* the k-th coefficient slot of v that carries a valid Encoder
NthValid(v, k) == CHOOSE i \in ValidSlots(v) : Rank(v, i) = k

ConstantOps ==
  {"VectorRLWE.add_constant_static_encoder", "VectorRLWE.add_constant_static_encoder_inplace"}

C22_WitnessRefused ==
  /\ res.op \in ConstantOps
  /\ res.status = "Err"
  /\ Len(res.list) = VectorRLWE_nb_valid(res.vself) + 1
  /\ VectorRLWE_nb_valid(res.vself) >= 1

WellFormedVector(v) ==
  CASE v.kind = "VectorLWE" ->
         /\ v.nb_ciphertexts >= 1
         /\ Len(v.ciphertexts) = v.nb_ciphertexts
         /\ Len(v.variances) = v.nb_ciphertexts
         /\ Len(v.encoders) = v.nb_ciphertexts
    [] v.kind = "VectorRLWE" ->
         /\ v.nb_ciphertexts >= 1
         /\ IsPowerOfTwo(v.polynomial_size)
         /\ Len(v.ciphertexts) = v.nb_ciphertexts * v.polynomial_size
         /\ Len(v.variances) = v.nb_ciphertexts * v.polynomial_size
         /\ Len(v.encoders) = v.nb_ciphertexts * v.polynomial_size
    [] OTHER -> TRUE

\* C23: VectorLWE::zero and VectorRLWE::zero asked for zero ciphertexts have
\* failed with ZeroCiphertextsInStructureError, VectorRLWE::zero asked for a
\* polynomial size that is no power of two has failed with NotPowerOfTwoError,
\* and in every state reached through the public operations, setters
\* included, the vector has at least one ciphertext, one variance and one
\* Encoder per body, and a polynomial size that is a power of two.
C23_ContainerInvariant ==
  /\ WellFormedVector(vec)
  /\ (res.op \in {"VectorLWE.zero", "VectorRLWE.zero"} /\ res.args.b = 0)
       => /\ res.status = "Err"
          /\ res.err \in {"ZeroCiphertextsInStructureError", "NotPowerOfTwoError"}
          /\ (res.op = "VectorLWE.zero" \/ IsPowerOfTwo(res.args.a))
               => res.err = "ZeroCiphertextsInStructureError"
  /\ (res.op = "VectorRLWE.zero" /\ ~IsPowerOfTwo(res.args.a) /\ res.args.b >= 1)
       => (res.status = "Err" /\ res.err = "NotPowerOfTwoError")

\* the same, for the states in which no setter has been called yet
C23_ConstructorsOnly ==
  /\ (res.status = "Ok" /\ res.op \in {"VectorLWE.zero", "VectorRLWE.zero",
                                       "VectorLWE.encode_encrypt",
                                       "VectorRLWE.encode_encrypt"})
       => WellFormedVector(vec)
  /\ (res.op \in {"VectorLWE.zero", "VectorRLWE.zero"} /\ res.args.b = 0)
       => res.status = "Err"

PerSlotOps ==
  {"VectorLWE.add_with_padding", "VectorLWE.add_constant_dynamic_encoder",
   "VectorLWE.mul_constant_with_padding"}

\* what the single-ciphertext method of the same name returns on slot i of
\* the operands of the finished vector call
SingleOnSlot(i) ==
  CASE res.op = "VectorLWE.add_with_padding" ->
         LWE_add_with_padding(Slot(res.vself, i), Slot(res.vother, i))
    [] res.op = "VectorLWE.add_constant_dynamic_encoder" ->
         LWE_add_constant_dynamic_encoder(Slot(res.vself, i), res.list[i])
    [] res.op = "VectorLWE.mul_constant_with_padding" ->
         LWE_mul_constant_with_padding(Slot(res.vself, i), res.list[i], res.args.b, res.args.c)

\* C24: after a VectorLWE constant addition, addition with padding or scalar
\* multiplication has returned Ok, slot i of the result is what the LWE method
\* of the same name returns on slot i of the operands alone.
C24_PerSlot ==
  (res.op \in PerSlotOps /\ res.status = "Ok") =>
    \A i \in 1..NbSlots(res.vres) :
      /\ SingleOnSlot(i).status = "Ok"
      /\ SingleOnSlot(i).val = Slot(res.vres, i)

\* the same without the addition of two ciphertexts
C24_PerSlotConstants ==
  (res.op \in PerSlotOps \ {"VectorLWE.add_with_padding"} /\ res.status = "Ok") =>
    \A i \in 1..NbSlots(res.vres) :
      /\ SingleOnSlot(i).status = "Ok"
      /\ SingleOnSlot(i).val = Slot(res.vres, i)

---------------------------------------------------------------------------
(* Properties of Encoder ownership, checked under SpecAlias *)

EncoderMutations == {"set_o", "obtained.set_o"}
ValueOps == {"add_constant_static_encoder"}

C25_NoAliasingByValue ==
  [][(res'.op # "obtained.set_o" \/ got.kind # LWE_get_encoder_returns)
       => /\ res'.op \in EncoderMutations \cup ValueOps
               => (ct' = ct /\ pt' = pt /\ vec' = vec)
          /\ res'.op \in {"encode_encrypt", "set_encoder", "Plaintext.set_nth_encoder",
                          "VectorLWE.encode_encrypt"} \cup ValueOps
               => enc' = enc]_vars

\* the host's Encoder was stored in the ciphertext, the Plaintext and the
\* vector and then mutated: the three stored Encoders differ from it
C25_StoredKept ==
  /\ res.op = "set_o"
  /\ HasLWE /\ ct.encoder # enc /\ ct.encoder.delta = enc.delta
  /\ Len(pt.encoders) >= 1 /\ pt.encoders[1] # enc /\ pt.encoders[1].delta = enc.delta
  /\ IsVectorLWE /\ vec.encoders[1] # enc /\ vec.encoders[1].delta = enc.delta

=============================================================================
